---- MODULE Spec2Model ----
(***************************************************************************)
(* Model of ezdxf.addons.iterdxf: the indexed iterator IterDXF, the        *)
(* single-pass iterator single_pass_modelspace and the exporter            *)
(* IterDXFWriter; and of ObjectCollection.duplicate_entry of               *)
(* ezdxf.entities.objectcollection.                                        *)
(*                                                                         *)
(* A file is a sequence of tags; one tag stands for the two lines          *)
(* (group code, value) of the wire format and is the unit of "byte"        *)
(* offsets: the location of a record is the number of tags before it.      *)
(* Python indices are kept 0-based; At(s, i) reads s[i].                   *)
(***************************************************************************)
EXTENDS Integers, Sequences, FiniteSets, TLC

VARIABLES fs, rd, ms, sp, wr, tg, oc

vars == <<fs, rd, ms, sp, wr, tg, oc>>

(* ------------------------------ bounds -------------------------------- *)

\* longest ENTITIES section (in records) over all record kinds
MaxRecs == 3

\* longest ENTITIES section (in records) over the polyline family
MaxDeep == 5

\* longest ENTITIES section (in records) of a source without HEADER
MaxBare == 2

\* longest ENTITIES section (in records) of the sources of SpecSkip
MaxSkipRecs == 4

\* longest ENTITIES section (in records) of the sources of SpecExport:
\* over all exported kinds, over the polyline family, and in the layouts
\* other than R2000
MaxExpRecs == 3

MaxExpDeep == 4

MaxExpLay == 1

\* longest ENTITIES section (in records) of the sources of SpecExport
\* whose records carry cross-references
MaxStripRecs == 3

\* longest ENTITIES section (in records) of the sources of SpecForeign,
\* and the most write() calls with an entity of another source
MaxForeignRecs == 2

MaxForeign == 1

\* longest ENTITIES section (in records) of the sources of SpecOpen
MaxOpenRecs == 1

\* longest stream (in lines) of SpecTagger
MaxLines == 4

\* longest ENTITIES section (in records) of the sources of SpecBare
MaxBareDeep == 5

\* longest ENTITIES section (in records) of the sources of SpecText
MaxTextRecs == 3

\* longest ENTITIES section (in records) of the sources of SpecBad
MaxBadRecs == 3

\* longest ENTITIES section (in records) of the sources of SpecHandle
MaxHandleRecs == 2

\* most calls of duplicate_entry on one collection
MaxDupCalls == 2

\* longest ENTITIES section (in records) of the sources of SpecNoEnd
MaxNoEndRecs == 3

\* longest ENTITIES section (in records) of the sources of SpecShared
MaxSharedRecs == 3

(* --------------------------- tags and text ---------------------------- *)

T(c, v) == [code |-> c, value |-> v]

At(s, i) == s[i + 1]

\* int(value) of the flag values that occur in the modelled files
IntOf(s) == IF s = "1" THEN 1 ELSE 0

\* the text a TagWriter writes for a flag value
StrOf(n) == IF n = 1 THEN "1" ELSE "0"

\* code points of the version strings, for Python's str comparison
Chars(s) ==
    CASE s = "AC1006" -> <<65, 67, 49, 48, 48, 54>>
      [] s = "AC1009" -> <<65, 67, 49, 48, 48, 57>>
      [] s = "AC1015" -> <<65, 67, 49, 48, 49, 53>>
      [] OTHER -> <<>>

RECURSIVE LexGT(_, _)
\* a > b for Python strings given as code point sequences
LexGT(a, b) ==
    IF a = <<>> THEN FALSE
    ELSE IF b = <<>> THEN TRUE
    ELSE IF Head(a) # Head(b) THEN Head(a) > Head(b)
    ELSE LexGT(Tail(a), Tail(b))

\* version > 'AC1009'
NewerThanR12(version) == LexGT(Chars(version), Chars("AC1009"))

SUPPORTED_DXF_TYPES ==
    {"ARC", "LINE", "CIRCLE", "ELLIPSE", "POINT", "LWPOLYLINE", "SPLINE",
     "3DFACE", "SOLID", "TRACE", "POLYLINE", "VERTEX", "SEQEND", "MESH",
     "TEXT", "MTEXT", "HATCH", "INSERT", "ATTRIB", "ATTDEF"}

(* ----------------------------- the files ------------------------------ *)

\* the tags that stand for the application data, the reactor list, the
\* extension dictionary and the extended data of a record
AppDataTag == T(102, "{MYAPP")

ReactorsTag == T(102, "{ACAD_REACTORS")

XDictTag == T(102, "{ACAD_XDICTIONARY")

XDataTag == T(1001, "MYAPP")

\* a record kind: type, flags, the cross-references it carries and the
\* bytes of its text (group code 1)
K(t, ps, af) == [type |-> t, ps |-> ps, af |-> af, x |-> {}, txt |-> ""]

\* a record kind that carries cross-references
KX(t, x) == [K(t, 0, 0) EXCEPT !.x = x]

\* a record kind with a text value
KT(t, txt) == [K(t, 0, 0) EXCEPT !.txt = txt]

\* the record kinds of an ENTITIES section: type, paperspace flag (67),
\* attribs-follow flag (66)
Kinds ==
    {K("LINE", 0, 0), K("LINE", 1, 0), K("POLYLINE", 0, 0),
     K("POLYLINE", 1, 0), K("VERTEX", 0, 0), K("SEQEND", 0, 0),
     K("INSERT", 0, 1), K("INSERT", 1, 1), K("INSERT", 0, 0),
     K("ATTRIB", 0, 0), K("DIMENSION", 0, 0)}

\* the record kinds of the polyline family
PolyKinds ==
    {K("LINE", 0, 0), K("POLYLINE", 0, 0), K("POLYLINE", 1, 0),
     K("VERTEX", 0, 0), K("SEQEND", 0, 0)}

\* the polyline family and an unsupported record
SkipKinds == PolyKinds \cup {K("DIMENSION", 0, 0)}

Bodies(kinds, n) == UNION {[1..m -> kinds] : m \in 0..n}

\* handles of the records of the ENTITIES section, by position
HandleStr == <<"E1", "E2", "E3", "E4", "E5", "E6", "E7", "E8">>

\* the tags of record number i
RecordTags(k, i) ==
    <<T(0, k.type), T(5, HandleStr[i])>>
    \o (IF "appdata" \in k.x THEN <<AppDataTag>> ELSE <<>>)
    \o (IF "reactors" \in k.x THEN <<ReactorsTag>> ELSE <<>>)
    \o (IF "extension_dict" \in k.x THEN <<XDictTag>> ELSE <<>>)
    \o (IF k.ps = 1 THEN <<T(67, "1")>> ELSE <<>>)
    \o (IF k.af = 1 THEN <<T(66, "1")>> ELSE <<>>)
    \o (IF k.type = "DIMENSION" THEN <<T(1, "text")>> ELSE <<>>)
    \o (IF k.txt # "" THEN <<T(1, k.txt)>> ELSE <<>>)
    \o (IF "xdata" \in k.x THEN <<XDataTag>> ELSE <<>>)

RECURSIVE Flatten(_, _, _)
\* the records from number i on; the DIMENSION records are left out
\* unless `all`
Flatten(body, i, all) ==
    IF i > Len(body) THEN <<>>
    ELSE (IF all \/ body[i].type # "DIMENSION"
          THEN RecordTags(body[i], i) ELSE <<>>)
         \o Flatten(body, i + 1, all)

L(header, version, tables, entities, endsec, objects) ==
    [header |-> header, version |-> version, tables |-> tables,
     entities |-> entities, endsec |-> endsec, objects |-> objects]

HeaderSection(version) ==
    <<T(0, "SECTION"), T(2, "HEADER"), T(9, "$ACADVER"), T(1, version),
      T(9, "$DWGCODEPAGE"), T(3, "ANSI_1252"), T(0, "ENDSEC")>>

\* a layer named ENTITIES: a code 2 tag that is no section name
TablesSection ==
    <<T(0, "SECTION"), T(2, "TABLES"), T(0, "LAYER"), T(2, "ENTITIES"),
      T(5, "T1"), T(0, "ENDSEC")>>

ObjectsSection(objects) ==
    IF objects = "none" THEN <<>>
    ELSE <<T(0, "SECTION"), T(2, "OBJECTS"), T(0, "DICTIONARY"), T(5, "D1")>>
         \o (IF objects = "ok" THEN <<T(0, "ENDSEC")>> ELSE <<>>)

FileOf(layout, body, all) ==
    (IF layout.header THEN HeaderSection(layout.version) ELSE <<>>)
    \o (IF layout.tables THEN TablesSection ELSE <<>>)
    \o (IF layout.entities
        THEN <<T(0, "SECTION"), T(2, "ENTITIES")>> \o Flatten(body, 1, all)
             \o (IF layout.endsec THEN <<T(0, "ENDSEC")>> ELSE <<>>)
        ELSE <<>>)
    \o ObjectsSection(layout.objects)
    \o <<T(0, "EOF")>>

(* ------------------------ fileindex (collaborator) -------------------- *)

Entry(c, v, loc) == [code |-> c, value |-> v, location |-> loc]

\* position of the EOF record, where the scan stops
EofPos(file) ==
    IF \E i \in 1..Len(file) : file[i] = T(0, "EOF")
    THEN CHOOSE i \in 1..Len(file) :
            /\ file[i] = T(0, "EOF")
            /\ \A j \in 1..(i - 1) : file[j] # T(0, "EOF")
    ELSE Len(file)

\* the index of fileindex.load: every code 0 tag, the section names and
\* the handles, each with its offset
RawIndex(file) ==
    LET n == EofPos(file)
        all == [i \in 1..n |-> Entry(file[i].code, file[i].value, i - 1)]
        Structural(e) ==
            LET i == e.location + 1 IN
            \/ e.code = 0
            \/ e.code = 2 /\ i > 1 /\ file[i - 1] = T(0, "SECTION")
            \/ e.code = 5
    IN SelectSeq(all, Structural)

\* value of the header variable `name`, or the default
HeaderVar(file, name, default) ==
    IF \E i \in 1..(Len(file) - 1) : file[i] = T(9, name)
    THEN file[(CHOOSE i \in 1..(Len(file) - 1) :
                /\ file[i] = T(9, name)
                /\ \A j \in 1..(i - 1) : file[j] # T(9, name)) + 1].value
    ELSE default

\* tools.codepage.toencoding
toencoding(codepage) ==
    IF codepage = "ANSI_1250" THEN "cp1250" ELSE "cp1252"

FileVersion(file) == HeaderVar(file, "$ACADVER", "AC1009")

FileEncoding(file) ==
    toencoding(HeaderVar(file, "$DWGCODEPAGE", "ANSI_1252"))

(* ------------------------------ IterDXF ------------------------------- *)

EmptyMap == [x \in {} |-> 0]

MapPut(m, k, v) == [x \in (DOMAIN m) \cup {k} |-> IF x = k THEN v ELSE m[x]]

RECURSIVE LoadIndexLoopNext(_, _, _, _)
\* LoadIndexLoop as it would be if a section name were mapped to the
\* position after the SECTION entry
LoadIndexLoopNext(raw, i, new_index, sections) ==
    IF i > Len(raw) THEN [index |-> new_index, sections |-> sections]
    ELSE LET e == raw[i] IN
         IF e.code = 0
         THEN LoadIndexLoopNext(raw, i + 1, Append(new_index, e), sections)
         ELSE IF e.code = 2
         THEN LoadIndexLoopNext(raw, i + 1, new_index,
                                MapPut(sections, e.value, Len(new_index)))
         ELSE LoadIndexLoopNext(raw, i + 1, new_index, sections)

RECURSIVE LoadIndexLoop(_, _, _, _)
\* the loop of IterDXF._load_index over structure.index
LoadIndexLoop(raw, i, new_index, sections) ==
    IF i > Len(raw) THEN [index |-> new_index, sections |-> sections]
    ELSE LET e == raw[i] IN
         IF e.code = 0
         THEN LoadIndexLoop(raw, i + 1, Append(new_index, e), sections)
         ELSE IF e.code = 2
         THEN LoadIndexLoop(raw, i + 1, new_index,
                            MapPut(sections, e.value, Len(new_index) - 1))
         ELSE LoadIndexLoop(raw, i + 1, new_index, sections)

_load_index(file) == LoadIndexLoop(RawIndex(file), 1, <<>>, EmptyMap)


NewReader(name) ==
    [st |-> "new", name |-> name, index |-> <<>>, sections |-> EmptyMap,
     version |-> "AC1009", encoding |-> "cp1252", fopen |-> FALSE,
     pos |-> 0, err |-> "none"]

\* the outcome of IterDXF.__init__ for the result of its tests
Constructed(name, file, li, version, ok) ==
    [st |-> IF ok THEN "open" ELSE "rejected", name |-> name,
     index |-> li.index, sections |-> li.sections, version |-> version,
     encoding |-> FileEncoding(file), fopen |-> TRUE, pos |-> 0,
     err |-> IF ok THEN "none" ELSE "DXFStructureError"]

\* IterDXF as it would be without the test for the ENTITIES section
IterDXFNoEntitiesTest(name, file) ==
    LET li == _load_index(file)
        version == FileVersion(file)
        ok == ~(NewerThanR12(version) /\ "OBJECTS" \notin DOMAIN li.sections)
    IN Constructed(name, file, li, version, ok)

\* IterDXF as it would be if the version were compared with >= 'AC1009'
IterDXFFromR12(name, file) ==
    LET li == _load_index(file)
        version == FileVersion(file)
        ok == /\ "ENTITIES" \in DOMAIN li.sections
              /\ ~((NewerThanR12(version) \/ version = "AC1009")
                   /\ "OBJECTS" \notin DOMAIN li.sections)
    IN Constructed(name, file, li, version, ok)

\* IterDXF.__init__: the file is opened before the sections are checked
IterDXF(name, file) ==
    LET li == _load_index(file)
        version == FileVersion(file)
        ok == /\ "ENTITIES" \in DOMAIN li.sections
              /\ ~(NewerThanR12(version) /\ "OBJECTS" \notin DOMAIN li.sections)
    IN Constructed(name, file, li, version, ok)

\* file.read(size) at offset pos
ReadAt(file, pos, size) ==
    IF size <= 0 \/ pos >= Len(file) THEN <<>>
    ELSE SubSeq(file, pos + 1, IF pos + size > Len(file) THEN Len(file)
                               ELSE pos + size)

(* ------------------- entities and linker (collaborators) -------------- *)

\* value of the first tag with the given code, or the default
TagValue(tags, code, default) ==
    IF \E i \in 1..Len(tags) : tags[i].code = code
    THEN tags[CHOOSE i \in 1..Len(tags) :
                /\ tags[i].code = code
                /\ \A j \in 1..(i - 1) : tags[j].code # code].value
    ELSE default

\* EntityFactory.entity(ExtendedTags): the entity of one record
\* xdata, appdata, extension_dict and reactors hold the tags of the record
\* (<<>> stands for None)
Entity(tags) ==
    [type |-> tags[1].value,
     handle |-> TagValue(tags, 5, ""),
     paperspace |-> IntOf(TagValue(tags, 67, "0")),
     attribs_follow |-> IntOf(TagValue(tags, 66, "0")),
     text |-> TagValue(tags, 1, ""),
     xdata |-> SelectSeq(tags, LAMBDA t : t.code = 1001),
     appdata |-> SelectSeq(tags, LAMBDA t :
                    t.code = 102 /\ t \notin {ReactorsTag, XDictTag}),
     extension_dict |-> SelectSeq(tags, LAMBDA t : t = XDictTag),
     reactors |-> SelectSeq(tags, LAMBDA t : t = ReactorsTag),
     links |-> <<>>, seqend |-> <<>>]

\* a record can be built when it starts with its structure tag
Buildable(tags) == tags # <<>> /\ tags[1].code = 0

LINKED_ENTITIES(type) == IF type = "INSERT" THEN "ATTRIB" ELSE "VERTEX"

NewLinker == [main |-> <<>>, expected |-> ""]

\* one call of the closure returned by entity_linker(): `linked` is its
\* result, `obj` the main entity as it is after the call
Linker(lk, entity) ==
    IF lk.main # <<>>
    THEN IF entity.type = "SEQEND"
         THEN [linked |-> TRUE, err |-> "none",
               obj |-> <<[lk.main[1] EXCEPT !.seqend = <<entity>>]>>,
               lk |-> NewLinker]
         ELSE IF entity.type = lk.expected
         THEN LET o == [lk.main[1] EXCEPT !.links = Append(@, entity)]
              IN [linked |-> TRUE, err |-> "none", obj |-> <<o>>,
                  lk |-> [lk EXCEPT !.main = <<o>>]]
         ELSE [linked |-> TRUE, err |-> "DXFStructureError",
               obj |-> lk.main, lk |-> lk]
    ELSE IF /\ entity.type \in {"POLYLINE", "INSERT"}
            /\ ~(entity.type = "INSERT" /\ entity.attribs_follow = 0)
         THEN [linked |-> FALSE, err |-> "none", obj |-> <<entity>>,
               lk |-> [main |-> <<entity>>,
                       expected |-> LINKED_ENTITIES(entity.type)]]
         ELSE [linked |-> FALSE, err |-> "none", obj |-> <<>>, lk |-> lk]

\* Collect as it would be if the paperspace flag were tested before the
\* linker is called
\* Collect as it would be without the queue: an entity that is not linked
\* is yielded at once
CollectNoQueue(q, entity) ==
    LET r == Linker(q.lk, entity) IN
    IF r.err # "none"
    THEN [queued |-> q.queued, lk |-> q.lk, alias |-> q.alias,
          yield |-> <<>>, err |-> r.err]
    ELSE IF r.linked
    THEN [queued |-> <<>>, lk |-> r.lk, alias |-> FALSE, yield |-> <<>>,
          err |-> "none"]
    ELSE IF entity.paperspace = 0
    THEN [queued |-> <<>>, lk |-> r.lk, alias |-> FALSE,
          yield |-> <<entity>>, err |-> "none"]
    ELSE [queued |-> q.queued, lk |-> r.lk, alias |-> FALSE, yield |-> <<>>,
          err |-> "none"]

CollectFlagFirst(q, entity) ==
    IF entity.paperspace # 0
    THEN [queued |-> q.queued, lk |-> q.lk, alias |-> q.alias,
          yield |-> <<>>, err |-> "none"]
    ELSE LET r == Linker(q.lk, entity) IN
         IF r.err # "none"
         THEN [queued |-> q.queued, lk |-> q.lk, alias |-> q.alias,
               yield |-> <<>>, err |-> r.err]
         ELSE IF r.linked
         THEN [queued |-> IF q.alias THEN r.obj ELSE q.queued, lk |-> r.lk,
               alias |-> q.alias /\ r.lk.main # <<>>, yield |-> <<>>,
               err |-> "none"]
         ELSE [queued |-> <<entity>>, lk |-> r.lk,
               alias |-> r.lk.main # <<>>, yield |-> q.queued,
               err |-> "none"]

\* the body of both iteration loops for one built entity:
\*     if not linked_entity(entity) and entity.dxf.paperspace == 0:
\*         if queued: yield queued
\*         queued = entity
\* q.alias says that q.queued and the linker's main entity are one object
Collect(q, entity) ==
    LET r == Linker(q.lk, entity) IN
    IF r.err # "none"
    THEN [queued |-> q.queued, lk |-> q.lk, alias |-> q.alias,
          yield |-> <<>>, err |-> r.err]
    ELSE IF r.linked
    THEN [queued |-> IF q.alias THEN r.obj ELSE q.queued, lk |-> r.lk,
          alias |-> q.alias /\ r.lk.main # <<>>, yield |-> <<>>,
          err |-> "none"]
    ELSE IF entity.paperspace = 0
    THEN [queued |-> <<entity>>, lk |-> r.lk, alias |-> r.lk.main # <<>>,
          yield |-> q.queued, err |-> "none"]
    ELSE [queued |-> q.queued, lk |-> r.lk, alias |-> FALSE, yield |-> <<>>,
          err |-> "none"]

(* ------------------------ IterDXF.modelspace -------------------------- *)

Readers == {"A", "B"}

Gens == {"g1", "g2"}

\* the IterDXF a generator was created from
GenReader(g) == IF g = "g1" THEN "A" ELSE "B"

NewGen ==
    [pc |-> "new", idx |-> 0, entry |-> Entry(0, "", 0), queued |-> <<>>,
     lk |-> NewLinker, alias |-> FALSE, out |-> <<>>, err |-> "none"]

\* first resumption of modelspace(): load_entities up to its loop
StartGen(gen, reader) ==
    LET start == reader.sections["ENTITIES"] + 1 IN
    IF start >= Len(reader.index)
    THEN [gen |-> [gen EXCEPT !.pc = "error", !.err = "IndexError"],
          pos |-> reader.pos]
    ELSE LET entry == At(reader.index, start) IN
         [gen |-> [gen EXCEPT !.pc = "running", !.idx = start,
                              !.entry = entry],
          pos |-> entry.location]

\* load_data as it would be if only supported records were read
load_data_supported(reader, file, entry, next_entry) ==
    IF entry.value \in SUPPORTED_DXF_TYPES
    THEN LET data == ReadAt(file, reader.pos,
                            next_entry.location - entry.location)
         IN [data |-> data, pos |-> reader.pos + Len(data)]
    ELSE [data |-> <<>>, pos |-> reader.pos]

\* size = next_entry.location - entry.location; data = file.read(size):
\* the bytes read and the file position after the read
load_data(reader, file, entry, next_entry) ==
    LET size == next_entry.location - entry.location
        data == ReadAt(file, reader.pos, size)
    IN [data |-> data, pos |-> reader.pos + Len(data)]

\* StepGen as it would be without `if queued: yield queued` after the
\* loop of modelspace()
StepGenNoFlush(gen, reader, file) ==
    IF gen.entry.value = "ENDSEC"
    THEN [gen |-> [gen EXCEPT !.pc = "done"],
          pos |-> reader.pos]
    ELSE IF gen.idx + 1 >= Len(reader.index)
    THEN [gen |-> [gen EXCEPT !.pc = "error", !.err = "IndexError",
                              !.idx = @ + 1],
          pos |-> reader.pos]
    ELSE LET next_entry == At(reader.index, gen.idx + 1)
             ld == load_data(reader, file, gen.entry, next_entry)
             data == ld.data
             pos == ld.pos
             moved == [gen EXCEPT !.idx = @ + 1, !.entry = next_entry,
                                  !.pc = "running"]
         IN IF gen.entry.value \notin SUPPORTED_DXF_TYPES
            THEN [gen |-> moved, pos |-> pos]
            ELSE IF ~Buildable(data)
            THEN [gen |-> [gen EXCEPT !.pc = "error",
                                      !.err = "DXFStructureError",
                                      !.idx = @ + 1],
                  pos |-> pos]
            ELSE LET c == Collect(gen, Entity(data)) IN
                 IF c.err # "none"
                 THEN [gen |-> [gen EXCEPT !.pc = "error", !.err = c.err,
                                           !.idx = @ + 1],
                       pos |-> pos]
                 ELSE [gen |-> [moved EXCEPT
                                  !.queued = c.queued, !.lk = c.lk,
                                  !.alias = c.alias,
                                  !.out = @ \o c.yield,
                                  !.pc = IF c.yield # <<>> THEN "yielded"
                                         ELSE "running"],
                       pos |-> pos]

\* one pass through the loop of load_entities and, for a supported
\* record, through the loop body of modelspace()
StepGen(gen, reader, file) ==
    IF gen.entry.value = "ENDSEC"
    THEN [gen |-> [gen EXCEPT !.pc = "done", !.out = @ \o gen.queued],
          pos |-> reader.pos]
    ELSE IF gen.idx + 1 >= Len(reader.index)
    THEN [gen |-> [gen EXCEPT !.pc = "error", !.err = "IndexError",
                              !.idx = @ + 1],
          pos |-> reader.pos]
    ELSE LET next_entry == At(reader.index, gen.idx + 1)
             ld == load_data(reader, file, gen.entry, next_entry)
             data == ld.data
             pos == ld.pos
             moved == [gen EXCEPT !.idx = @ + 1, !.entry = next_entry,
                                  !.pc = "running"]
         IN IF gen.entry.value \notin SUPPORTED_DXF_TYPES
            THEN [gen |-> moved, pos |-> pos]
            ELSE IF ~Buildable(data)
            THEN [gen |-> [gen EXCEPT !.pc = "error",
                                      !.err = "DXFStructureError",
                                      !.idx = @ + 1],
                  pos |-> pos]
            ELSE LET c == Collect(gen, Entity(data)) IN
                 IF c.err # "none"
                 THEN [gen |-> [gen EXCEPT !.pc = "error", !.err = c.err,
                                           !.idx = @ + 1],
                       pos |-> pos]
                 ELSE [gen |-> [moved EXCEPT
                                  !.queued = c.queued, !.lk = c.lk,
                                  !.alias = c.alias,
                                  !.out = @ \o c.yield,
                                  !.pc = IF c.yield # <<>> THEN "yielded"
                                         ELSE "running"],
                       pos |-> pos]

RECURSIVE RunGen(_, _, _)
\* one next() on the generator: it runs to its next yield, to its end or
\* to an exception
RunGen(gen, reader, file) ==
    LET n == IF gen.pc = "new" THEN StartGen(gen, reader)
             ELSE StepGen(gen, reader, file)
    IN IF n.gen.pc = "running"
       THEN RunGen(n.gen, [reader EXCEPT !.pos = n.pos], file)
       ELSE n

(* ---------------------- single_pass_modelspace ------------------------ *)

(* --------------------------- binary_tagger ---------------------------- *)

\* a stream for binary_tagger is a sequence of lines, each without its
\* line end; file.readline() returns the line with its line end, and b''
\* at the end of the stream
AtEnd(lines, pos) == pos >= Len(lines)

ReadLine(lines, pos) == IF AtEnd(lines, pos) THEN "" ELSE lines[pos + 1]

\* int(line): the lines of the model that Python parses, white space
\* around the digits included; any other line, b'' too, is a ValueError
IntLines == {"0", " 1071", "1072", "-1"}

ParseInt(line) ==
    CASE line = "0" -> 0
      [] line = " 1071" -> 1071
      [] line = "1072" -> 1072
      [] line = "-1" -> 0 - 1

\* bytes.decode(encoding): ASCII bytes decode to the same characters in
\* every encoding of the model; the bytes C3 A4 are one character in
\* UTF-8 and two in the single-byte code pages
Decode(value, encoding) ==
    IF value # "<C3><A4>" THEN value
    ELSE CASE encoding = "utf-8" -> "U+00E4"
           [] encoding = "cp1252" -> "U+00C3 U+00A4"
           [] encoding = "cp1250" -> "U+0102 U+00A4"

\* load_tag as it would be without the test of the range of the code
load_tag_any_code(lines, pos, encoding) ==
    LET line == ReadLine(lines, pos)
        p1 == IF AtEnd(lines, pos) THEN pos ELSE pos + 1
    IN IF line \notin IntLines
       THEN [err |-> "DXFStructureError", tag |-> <<>>, pos |-> p1]
       ELSE LET value == ReadLine(lines, p1)
                p2 == IF AtEnd(lines, p1) THEN p1 ELSE p1 + 1
            IN [err |-> "none",
                tag |-> <<T(ParseInt(line),
                            IF encoding # "" THEN Decode(value, encoding)
                            ELSE value)>>,
                pos |-> p2]

\* binary_tagger.load_tag: the tag it returns or the error it raises, and
\* the position of the stream afterwards; encoding "" stands for None
load_tag(lines, pos, encoding) ==
    LET line == ReadLine(lines, pos)
        p1 == IF AtEnd(lines, pos) THEN pos ELSE pos + 1
    IN IF line \notin IntLines
       THEN [err |-> "DXFStructureError", tag |-> <<>>, pos |-> p1]
       ELSE IF ParseInt(line) < 0 \/ ParseInt(line) > 1071
       THEN [err |-> "DXFStructureError", tag |-> <<>>, pos |-> p1]
       ELSE LET value == ReadLine(lines, p1)
                p2 == IF AtEnd(lines, p1) THEN p1 ELSE p1 + 1
            IN [err |-> "none",
                tag |-> <<T(ParseInt(line),
                            IF encoding # "" THEN Decode(value, encoding)
                            ELSE value)>>,
                pos |-> p2]

\* no binary_tagger has been called
NoTagger ==
    [st |-> "none", lines |-> <<>>, pos |-> 0, encoding |-> "",
     out |-> <<>>, err |-> "none"]

\* binary_tagger(file, encoding): a generator that has not run yet
NewTagger(lines, encoding) ==
    [st |-> "suspended", lines |-> lines, pos |-> 0, encoding |-> encoding,
     out |-> <<>>, err |-> "none"]

(* ---------------------- single_pass_modelspace ------------------------ *)

Streams == {"S", "R"}

NewStream(name) ==
    [pc |-> "new", name |-> name, pos |-> 0, closed |-> FALSE,
     fetch_header_var |-> "", encoding |-> "cp1252", version |-> "AC1009",
     tagger_encoding |-> "", prev_code |-> -1, prev_value |-> "",
     structure |-> "", tags |-> <<>>, entities |-> FALSE, queued |-> <<>>,
     lk |-> NewLinker, alias |-> FALSE, out |-> <<>>, err |-> "none"]

\* TaggerFails as it would be without the test of the group code
TaggerFailsAtEnd(file, pos) == pos >= Len(file)

\* binary_tagger: int(readline()) of the empty line at the end of the
\* input raises ValueError, reported as DXFStructureError; so does a code
\* line that is no integer, and a code outside 0..1071 (a tag whose code
\* is outside 0..1071 stands for both)
TaggerFails(file, pos) ==
    \/ pos >= Len(file)
    \/ At(file, pos).code \notin 0..1071

\* HeaderTag as it would be if the first loop were left at once when the
\* stream does not start with a HEADER section
HeaderTagNoScan(s, file) ==
    [s EXCEPT !.pc = "body", !.tagger_encoding = s.encoding]

\* one pass through the first loop (header variables)
HeaderTag(s, file) ==
    IF TaggerFails(file, s.pos)
    THEN [s EXCEPT !.pc = "error", !.err = "DXFStructureError"]
    ELSE LET tag == At(file, s.pos)
             t == [s EXCEPT !.pos = @ + 1]
         IN IF tag.code = 0 /\ tag.value = "ENDSEC"
            THEN [t EXCEPT !.pc = "body", !.tagger_encoding = s.encoding]
            ELSE IF tag.code = 9 /\ tag.value = "$DWGCODEPAGE"
            THEN [t EXCEPT !.pc = "header",
                           !.fetch_header_var = "ENCODING"]
            ELSE IF tag.code = 9 /\ tag.value = "$ACADVERSION"
            THEN [t EXCEPT !.pc = "header",
                           !.fetch_header_var = "VERSION"]
            ELSE IF s.fetch_header_var = "ENCODING"
            THEN [t EXCEPT !.pc = "header",
                           !.encoding = toencoding(tag.value),
                           !.fetch_header_var = ""]
            ELSE IF s.fetch_header_var = "VERSION"
            THEN [t EXCEPT !.pc = "header", !.version = tag.value,
                           !.fetch_header_var = ""]
            ELSE [t EXCEPT !.pc = "header"]

\* one pass through the second loop (sections and entities)
BodyTag(s, file) ==
    IF TaggerFails(file, s.pos)
    THEN [s EXCEPT !.pc = "error", !.err = "DXFStructureError"]
    ELSE LET code == At(file, s.pos).code
             value == Decode(At(file, s.pos).value, s.tagger_encoding)
             tag == T(code, value)
             t == [s EXCEPT !.pos = @ + 1, !.pc = "body"]
         IN IF s.entities
            THEN IF code = 0 /\ value = "ENDSEC"
                 THEN [t EXCEPT !.pc = "done", !.out = @ \o s.queued]
                 ELSE IF code = 0
                 THEN LET u == [t EXCEPT !.structure = value,
                                         !.tags = <<tag>>]
                      IN IF Len(s.tags) # 0
                            /\ s.structure \in SUPPORTED_DXF_TYPES
                         THEN LET c == Collect(s, Entity(s.tags)) IN
                              IF c.err # "none"
                              THEN [t EXCEPT !.pc = "error", !.err = c.err]
                              ELSE [u EXCEPT !.queued = c.queued,
                                             !.lk = c.lk,
                                             !.alias = c.alias,
                                             !.out = @ \o c.yield,
                                             !.pc =
                                                IF c.yield # <<>>
                                                THEN "yielded"
                                                ELSE "body"]
                         ELSE u
                 ELSE [t EXCEPT !.tags = Append(@, tag)]
            ELSE LET u == [t EXCEPT !.prev_code = code,
                                    !.prev_value = value]
                 IN IF code = 0
                    THEN [u EXCEPT !.structure = value]
                    ELSE IF code = 2 /\ s.prev_code = 0
                            /\ s.prev_value = "SECTION"
                    THEN [u EXCEPT
                            !.entities = (value = "ENTITIES"),
                            !.encoding =
                                IF value = "ENTITIES"
                                   /\ NewerThanR12(s.version)
                                THEN "utf-8" ELSE @]
                    ELSE u


RECURSIVE RunStream(_, _)
\* one next() on the generator: it runs to its next yield, to its end or
\* to an exception
RunStream(s, file) ==
    LET n == IF s.pc \in {"new", "header"} THEN HeaderTag(s, file)
             ELSE BodyTag(s, file)
    IN IF n.pc \in {"header", "body"} THEN RunStream(n, file) ELSE n

(* -------------------------- ObjectCollection -------------------------- *)

\* the names of the objects of the document, in the order of their
\* creation: object i carries the name NameSeq[i]
NameSeq == <<"M1", "M2", "M3">>

Names == {NameSeq[i] : i \in 1..Len(NameSeq)}

\* objs is the entity database (an object is known by its position),
\* dict the object dictionary of the collection: name -> object;
\* ret = 0 stands for no return value
NoCollection ==
    [dict |-> EmptyMap, objs |-> <<>>, calls |-> 0, last |-> <<>>,
     ret |-> 0, err |-> "none"]

\* a collection whose dictionary holds the objects named in `names`
NewCollection(names) ==
    [NoCollection EXCEPT
       !.objs = [i \in 1..Len(NameSeq) |->
                   [name |-> NameSeq[i], data |-> NameSeq[i]]],
       !.dict = [n \in names |->
                   CHOOSE i \in 1..Len(NameSeq) : NameSeq[i] = n]]

\* ObjectCollection.duplicate_entry(name, new_name)
duplicate_entry(c, name, new_name) ==
    LET called == [c EXCEPT !.calls = @ + 1, !.last = <<name, new_name>>]
        entry == IF name \in DOMAIN c.dict THEN c.dict[name] ELSE 0
    IN IF entry = 0
       THEN [called EXCEPT !.ret = 0, !.err = "DXFValueError"]
       ELSE LET new_entry == Len(c.objs) + 1 IN
            [called EXCEPT
               !.objs = Append(@, [c.objs[entry] EXCEPT !.name = new_name]),
               !.dict = MapPut(@, name, new_entry),
               !.ret = new_entry, !.err = "none"]

(* --------------------------- IterDXFWriter ---------------------------- *)

\* entity.export_dxf(tagwriter): the tags of one record
ExportTags(e) ==
    <<T(0, e.type), T(5, e.handle)>>
    \o e.appdata \o e.reactors \o e.extension_dict
    \o (IF e.paperspace # 0 THEN <<T(67, StrOf(e.paperspace))>> ELSE <<>>)
    \o (IF e.attribs_follow # 0 THEN <<T(66, StrOf(e.attribs_follow))>>
        ELSE <<>>)
    \o (IF e.text # "" THEN <<T(1, e.text)>> ELSE <<>>)
    \o e.xdata

RECURSIVE ExportAll(_)
ExportAll(seq) ==
    IF seq = <<>> THEN <<>>
    ELSE ExportTags(Head(seq)) \o ExportAll(Tail(seq))

\* WriteText as it would be if the terminator were not exported
WriteTextNoSeqend(e) ==
    IF e.type = "POLYLINE" \/ (e.type = "INSERT" /\ e.attribs_follow # 0)
    THEN [text |-> ExportTags(e) \o ExportAll(e.links),
          err |-> IF e.seqend = <<>> THEN "AttributeError" ELSE "none"]
    ELSE [text |-> ExportTags(e), err |-> "none"]

\* Strip as it would be if the reactor list were kept
StripKeepReactors(e) ==
    [e EXCEPT !.xdata = <<>>, !.appdata = <<>>, !.extension_dict = <<>>]

\* IterDXFWriter.write, "remove all possible dependencies": the four
\* attributes of the entity are set to None
Strip(e) ==
    [e EXCEPT !.xdata = <<>>, !.appdata = <<>>, !.extension_dict = <<>>,
              !.reactors = <<>>]

\* WriteText as it would be if the terminator were exported before the
\* dependents
WriteTextSeqendFirst(e) ==
    IF e.type = "POLYLINE" \/ (e.type = "INSERT" /\ e.attribs_follow # 0)
    THEN IF e.seqend = <<>>
         THEN [text |-> ExportTags(e), err |-> "AttributeError"]
         ELSE [text |-> ExportTags(e) \o ExportTags(e.seqend[1])
                        \o ExportAll(e.links),
               err |-> "none"]
    ELSE [text |-> ExportTags(e), err |-> "none"]

\* IterDXFWriter.write up to the encoding of the text buffer: the buffer
\* is reset and filled; seqend is None when no SEQEND was linked
WriteText(e) ==
    IF e.type = "POLYLINE"
    THEN IF e.seqend = <<>>
         THEN [text |-> ExportTags(e) \o ExportAll(e.links),
               err |-> "AttributeError"]
         ELSE [text |-> ExportTags(e) \o ExportAll(e.links)
                        \o ExportTags(e.seqend[1]),
               err |-> "none"]
    ELSE IF e.type = "INSERT" /\ e.attribs_follow # 0
    THEN IF e.seqend = <<>>
         THEN [text |-> ExportTags(e) \o ExportAll(e.links),
               err |-> "AttributeError"]
         ELSE [text |-> ExportTags(e) \o ExportAll(e.links)
                        \o ExportTags(e.seqend[1]),
               err |-> "none"]
    ELSE [text |-> ExportTags(e), err |-> "none"]

\* FileStructure.get(0, 'ENDSEC', start): -1 stands for ValueError
GetEndsec(index, start) ==
    IF \E i \in start..(Len(index) - 1) : At(index, i).value = "ENDSEC"
    THEN CHOOSE i \in start..(Len(index) - 1) :
            /\ At(index, i).value = "ENDSEC"
            /\ \A j \in start..(i - 1) : At(index, j).value # "ENDSEC"
    ELSE -1

\* copy_objects_section as it would be if the copy ended at the start of
\* the ENDSEC record
copy_objects_open(reader, file) ==
    LET start_index == reader.sections["OBJECTS"]
        end_index == GetEndsec(reader.index, start_index)
    IN IF end_index < 0
       THEN [data |-> <<>>, pos |-> reader.pos, err |-> "DXFStructureError"]
       ELSE LET start_location == At(reader.index, start_index).location
                end_location == At(reader.index, end_index).location
                data == ReadAt(file, start_location,
                               end_location - start_location)
            IN [data |-> data, pos |-> start_location + Len(data),
                err |-> "none"]

\* copy_objects_section as it would be if a section without ENDSEC were
\* copied up to the last record of the index
copy_objects_lenient(reader, file) ==
    LET start_index == reader.sections["OBJECTS"]
        found == GetEndsec(reader.index, start_index)
        end_index == IF found < 0 THEN Len(reader.index) - 2 ELSE found
    IN IF end_index + 1 >= Len(reader.index)
       THEN [data |-> <<>>, pos |-> reader.pos, err |-> "IndexError"]
       ELSE LET start_location == At(reader.index, start_index).location
                end_location == At(reader.index, end_index + 1).location
                data == ReadAt(file, start_location,
                               end_location - start_location)
            IN [data |-> data, pos |-> start_location + Len(data),
                err |-> "none"]

\* IterDXF.copy_objects_section: the bytes it writes and where it leaves
\* the source file
copy_objects_section(reader, file) ==
    LET start_index == reader.sections["OBJECTS"]
        end_index == GetEndsec(reader.index, start_index)
    IN IF end_index < 0
       THEN [data |-> <<>>, pos |-> reader.pos, err |-> "DXFStructureError"]
       ELSE IF end_index + 1 >= Len(reader.index)
       THEN [data |-> <<>>, pos |-> reader.pos, err |-> "IndexError"]
       ELSE LET start_location == At(reader.index, start_index).location
                end_location == At(reader.index, end_index + 1).location
                data == ReadAt(file, start_location,
                               end_location - start_location)
            IN [data |-> data, pos |-> start_location + Len(data),
                err |-> "none"]

\* ExportLocation as it would be if it were the offset of the SECTION
\* record of the ENTITIES section
ExportLocationSection(reader) ==
    At(reader.index, reader.sections["ENTITIES"]).location

\* ExportLocation as it would be if the source were copied to its end
ExportLocationEnd(reader) ==
    At(reader.index, Len(reader.index) - 1).location + 1

\* the offset up to which IterDXF.export copies the source
ExportLocation(reader) ==
    At(reader.index, reader.sections["ENTITIES"] + 1).location

(* ------------------------------ actions ------------------------------- *)

Files == {"src", "ref", "dst"}

\* opendxf(name)
Open(r) ==
    /\ rd[r].st = "new"
    /\ fs[rd[r].name] # <<>>
    /\ rd' = [rd EXCEPT ![r] = IterDXF(rd[r].name, fs[rd[r].name])]
    /\ UNCHANGED <<fs, ms, sp, wr, tg, oc>>

\* next() on a modelspace() generator
\* next() on the modelspace() generator g of the IterDXF r;
\* a seek or read on the closed source file raises ValueError
MsNextOn(g, r) ==
    /\ ms[g].pc \in {"new", "yielded"}
    /\ rd[r].st \in {"open", "closed"}
    /\ IF rd[r].fopen
       THEN LET n == RunGen(ms[g], rd[r], fs[rd[r].name]) IN
            /\ ms' = [ms EXCEPT ![g] = n.gen]
            /\ rd' = [rd EXCEPT ![r].pos = n.pos]
       ELSE /\ ms' = [ms EXCEPT ![g].pc = "error", ![g].err = "ValueError"]
            /\ rd' = rd
    /\ UNCHANGED <<fs, sp, wr, tg, oc>>

MsNext(g) == MsNextOn(g, GenReader(g))

\* IterDXF.close()
RdClose(r) ==
    /\ rd[r].st = "open"
    /\ rd' = [rd EXCEPT ![r].st = "closed", ![r].fopen = FALSE]
    /\ UNCHANGED <<fs, ms, sp, wr, tg, oc>>

\* next() on a single_pass_modelspace() generator
SpNext(s) ==
    /\ sp[s].pc \in {"new", "yielded"}
    /\ fs[sp[s].name] # <<>>
    /\ sp' = [sp EXCEPT ![s] = RunStream(sp[s], fs[sp[s].name])]
    /\ UNCHANGED <<fs, rd, ms, wr, tg, oc>>

\* next() on a binary_tagger generator: load_tag() is yielded, or its
\* DXFStructureError ends the generator; no read of the model raises the
\* IOError that would make it return
TgNext ==
    /\ tg.st = "suspended"
    /\ LET t == load_tag(tg.lines, tg.pos, tg.encoding) IN
       tg' = IF t.err # "none"
             THEN [tg EXCEPT !.st = "error", !.err = t.err, !.pos = t.pos]
             ELSE [tg EXCEPT !.out = @ \o t.tag, !.pos = t.pos]
    /\ UNCHANGED <<fs, rd, ms, sp, wr, oc>>

\* next() on a binary_tagger generator that has ended: StopIteration
TgStop ==
    /\ tg.st \in {"error", "done"}
    /\ tg' = [tg EXCEPT !.st = "stopped"]
    /\ UNCHANGED <<fs, rd, ms, sp, wr, oc>>

\* IterDXF.export(name): a new writer that holds the start of the source
Export ==
    /\ wr.st = "none"
    /\ rd["A"].st = "open"
    /\ rd["A"].sections["ENTITIES"] + 1 < Len(rd["A"].index)
    /\ LET location == ExportLocation(rd["A"])
           data == ReadAt(fs["src"], 0, location)
       IN /\ fs' = [fs EXCEPT !["dst"] = data]
          /\ rd' = [rd EXCEPT !["A"].pos = Len(data)]
    /\ wr' = [wr EXCEPT !.st = "open"]
    /\ UNCHANGED <<ms, sp, tg, oc>>

\* IterDXFWriter.write(entity) with the next entity the caller got from
\* modelspace()
\* the entity is the caller's object: it keeps the cleared attributes
\* the text buffer as it would be without seek(0) and truncate()
KeepText(text) == text

\* self.text.seek(0); self.text.truncate()
ResetText(text) == <<>>

Write ==
    /\ wr.st = "open"
    /\ wr.n < Len(ms["g1"].out)
    /\ LET e == Strip(ms["g1"].out[wr.n + 1])
           w == WriteText(e)
           text == ResetText(wr.text) \o w.text
       IN /\ ms' = [ms EXCEPT !["g1"].out[wr.n + 1] = e]
          /\ IF w.err # "none"
             THEN /\ wr' = [wr EXCEPT !.text = text, !.err = w.err,
                                      !.n = @ + 1, !.calls = @ + 1]
                  /\ fs' = fs
             ELSE /\ wr' = [wr EXCEPT !.text = text, !.n = @ + 1,
                                      !.calls = @ + 1,
                                      !.written = Append(@, e)]
                  /\ fs' = [fs EXCEPT !["dst"] = @ \o text]
    /\ UNCHANGED <<rd, sp, tg, oc>>

\* entities yielded by the modelspace() of another IterDXF: a LINE and a
\* POLYLINE with one vertex and its terminator
ForeignEntities ==
    {Entity(<<T(0, "LINE"), T(5, "F1"), ReactorsTag>>),
     [Entity(<<T(0, "POLYLINE"), T(5, "F2")>>) EXCEPT
        !.links = <<Entity(<<T(0, "VERTEX"), T(5, "F3")>>)>>,
        !.seqend = <<Entity(<<T(0, "SEQEND"), T(5, "F4")>>)>>]}

\* WriteForeign as it would be if write() tested the origin of the entity
WriteForeignRejected ==
    /\ wr.st = "open"
    /\ wr.foreign < MaxForeign
    /\ wr' = [wr EXCEPT !.calls = @ + 1, !.foreign = @ + 1,
                        !.err = "DXFValueError"]
    /\ UNCHANGED <<fs, rd, ms, sp, tg, oc>>

\* IterDXFWriter.write(entity) with an entity of another source: the same
\* code runs, nothing in it looks at the origin of the entity
WriteForeign ==
    /\ wr.st = "open"
    /\ wr.foreign < MaxForeign
    /\ \E f \in ForeignEntities :
          LET e == Strip(f)
              w == WriteText(e)
              text == ResetText(wr.text) \o w.text
          IN IF w.err # "none"
             THEN /\ wr' = [wr EXCEPT !.text = text, !.err = w.err,
                                      !.calls = @ + 1, !.foreign = @ + 1]
                  /\ fs' = fs
             ELSE /\ wr' = [wr EXCEPT !.text = text, !.calls = @ + 1,
                                      !.foreign = @ + 1,
                                      !.written = Append(@, e)]
                  /\ fs' = [fs EXCEPT !["dst"] = @ \o text]
    /\ UNCHANGED <<rd, ms, sp, tg, oc>>

\* the caller does not export the next entity
Skip ==
    /\ wr.st = "open"
    /\ wr.n < Len(ms["g1"].out)
    /\ wr' = [wr EXCEPT !.n = @ + 1]
    /\ UNCHANGED <<fs, rd, ms, sp, tg, oc>>

\* IterDXFWriter.close()
Close ==
    /\ wr.st = "open"
    /\ LET endsec == <<T(0, "ENDSEC")>>
           eof == <<T(0, "EOF")>>
       IN IF NewerThanR12(rd["A"].version)
          THEN LET c == copy_objects_section(rd["A"], fs["src"]) IN
               IF c.err # "none"
               THEN /\ fs' = [fs EXCEPT !["dst"] = @ \o endsec]
                    /\ wr' = [wr EXCEPT !.st = "error", !.err = c.err]
                    /\ rd' = rd
               ELSE /\ fs' = [fs EXCEPT !["dst"] = @ \o endsec \o c.data
                                                     \o eof]
                    /\ wr' = [wr EXCEPT !.st = "closed"]
                    /\ rd' = [rd EXCEPT !["A"].pos = c.pos]
          ELSE /\ fs' = [fs EXCEPT !["dst"] = @ \o endsec \o eof]
               /\ wr' = [wr EXCEPT !.st = "closed"]
               /\ rd' = rd
    /\ UNCHANGED <<ms, sp, tg, oc>>

(* --------------------- specification: iteration ----------------------- *)

DuplicateEntry ==
    /\ oc.calls < MaxDupCalls
    /\ \E name \in Names, new_name \in Names :
          oc' = duplicate_entry(oc, name, new_name)
    /\ UNCHANGED <<fs, rd, ms, sp, wr, tg>>

NoWriter ==
    [st |-> "none", text |-> <<>>, n |-> 0, calls |-> 0, foreign |-> 0,
     written |-> <<>>, err |-> "none"]

\* a source with a HEADER and a TABLES section
StdLayout == L(TRUE, "AC1009", TRUE, TRUE, TRUE, "none")

\* a source that starts with its ENTITIES section
BareLayout == L(FALSE, "AC1009", FALSE, TRUE, TRUE, "none")

\* the files when only the source has been written
OnlySrc(f) == [n \in Files |-> IF n = "src" THEN f ELSE <<>>]

Init ==
    /\ \/ \E b \in Bodies(Kinds, MaxRecs) :
             fs = OnlySrc(FileOf(StdLayout, b, TRUE))
       \/ \E b \in Bodies(PolyKinds, MaxDeep) :
             fs = OnlySrc(FileOf(StdLayout, b, TRUE))
       \/ \E b \in Bodies(Kinds, MaxBare) :
             fs = OnlySrc(FileOf(BareLayout, b, TRUE))
    /\ rd = [r \in Readers |-> NewReader(IF r = "A" THEN "src" ELSE "ref")]
    /\ ms = [g \in Gens |-> NewGen]
    /\ sp = [s \in Streams |->
                NewStream(IF s = "S" THEN "src" ELSE "ref")]
    /\ wr = NoWriter
    /\ tg = NoTagger
    /\ oc = NoCollection

\* the indexed iteration has ended
Ended(g) ==
    \/ rd[GenReader(g)].st = "rejected"
    \/ ms[g].pc \in {"done", "error"}

\* the caller iterates the source with modelspace() and then streams the
\* same bytes through single_pass_modelspace
Next ==
    \/ Open("A")
    \/ MsNext("g1")
    \/ Ended("g1") /\ SpNext("S")

Spec == Init /\ [][Next]_vars


(* ------------------- the records of a file, by position --------------- *)

\* position of the SECTION tag of the ENTITIES section (0 if none)
EntitiesAt(file) ==
    IF \E i \in 1..(Len(file) - 1) :
          file[i] = T(0, "SECTION") /\ file[i + 1] = T(2, "ENTITIES")
    THEN CHOOSE i \in 1..(Len(file) - 1) :
            /\ file[i] = T(0, "SECTION") /\ file[i + 1] = T(2, "ENTITIES")
            /\ \A j \in 1..(i - 1) :
                  ~(file[j] = T(0, "SECTION") /\ file[j + 1] = T(2, "ENTITIES"))
    ELSE 0

\* position of the first code 0 tag with this value after position i
\* (Len + 1 if none)
FirstAfter(file, i, value) ==
    IF \E j \in (i + 1)..Len(file) : file[j] = T(0, value)
    THEN CHOOSE j \in (i + 1)..Len(file) :
            /\ file[j] = T(0, value)
            /\ \A k \in (i + 1)..(j - 1) : file[k] # T(0, value)
    ELSE Len(file) + 1

\* position of the next code 0 tag after position i (Len + 1 if none)
NextRecord(file, i) ==
    IF \E j \in (i + 1)..Len(file) : file[j].code = 0
    THEN CHOOSE j \in (i + 1)..Len(file) :
            /\ file[j].code = 0
            /\ \A k \in (i + 1)..(j - 1) : file[k].code # 0
    ELSE Len(file) + 1

RECURSIVE RecordsFrom(_, _, _)
RecordsFrom(file, i, end) ==
    IF i >= end THEN <<>>
    ELSE LET n == NextRecord(file, i) IN
         <<Entity(SubSeq(file, i, n - 1))>> \o RecordsFrom(file, n, end)

\* the records of the ENTITIES section in file order, each as the entity
\* it is built to (without links)
Records(file) ==
    LET e == EntitiesAt(file) IN
    IF e = 0 THEN <<>>
    ELSE RecordsFrom(file, e + 2, FirstAfter(file, e, "ENDSEC"))

IsSupported(e) == e.type \in SUPPORTED_DXF_TYPES

\* the supported records of the ENTITIES section in file order
Supported(file) == SelectSeq(Records(file), IsSupported)

HasHeader(file) ==
    Len(file) >= 2 /\ file[1] = T(0, "SECTION") /\ file[2] = T(2, "HEADER")

DependentTypes == {"VERTEX", "ATTRIB", "SEQEND"}

\* a record that starts a composite entity
IsPrimary(e) ==
    \/ e.type = "POLYLINE"
    \/ e.type = "INSERT" /\ e.attribs_follow = 1

Handles(seq) == [i \in 1..Len(seq) |-> seq[i].handle]

Range(seq) == {seq[i] : i \in 1..Len(seq)}

\* sup[a] is a primary followed by exactly k dependents and a SEQEND
Composite(sup, a, k) ==
    /\ a + k + 1 <= Len(sup)
    /\ IsPrimary(sup[a])
    /\ \A i \in (a + 1)..(a + k) : sup[i].type = LINKED_ENTITIES(sup[a].type)
    /\ sup[a + k + 1].type = "SEQEND"

\* what the iterators have yielded so far
OutIndexed == ms["g1"].out

OutStream == sp["S"].out

(* ------------------------------ claims -------------------------------- *)

\* C1: whenever both iterators have accepted the same bytes and finished,
\* modelspace() and single_pass_modelspace() have yielded the same
\* sequence of logical entities (types, dependents and terminators).
C1_TwoModeEquivalence ==
    (ms["g1"].pc = "done" /\ sp["S"].pc = "done") => OutIndexed = OutStream

\* C2: on a stream with a HEADER section, when single_pass_modelspace has
\* finished, every supported, non-dependent record with paperspace flag 0
\* of the ENTITIES section has been yielded exactly once, in file order
\* (the record right before ENDSEC included), and a dependent or
\* terminator right before ENDSEC is linked to its primary.
C2_StreamYieldsAll ==
    LET sup == Supported(fs["src"])
        top == SelectSeq(sup, LAMBDA e :
                   e.type \notin DependentTypes /\ e.paperspace = 0)
        got == SelectSeq(OutStream, LAMBDA e : e.type \notin DependentTypes)
    IN (HasHeader(fs["src"]) /\ sp["S"].pc = "done")
       => /\ Handles(got) = Handles(top)
          /\ \A a \in 1..Len(sup), k \in 0..Len(sup) :
                (Composite(sup, a, k) /\ sup[a].paperspace = 0
                 /\ a + k + 1 = Len(sup))
                => \E j \in 1..Len(OutStream) :
                      /\ OutStream[j].handle = sup[a].handle
                      /\ OutStream[j].seqend = <<sup[a + k + 1]>>

\* the composite at sup[a] has been yielded as exactly one entity owning
\* its k dependents in order and its terminator, and none of these k + 1
\* records has been yielded on its own
YieldedWhole(out, sup, a, k) ==
    /\ Cardinality({j \in 1..Len(out) : out[j].handle = sup[a].handle}) = 1
    /\ \A j \in 1..Len(out) :
          /\ out[j].handle = sup[a].handle
             => /\ out[j].links = SubSeq(sup, a + 1, a + k)
                /\ out[j].seqend = <<sup[a + k + 1]>>
          /\ \A i \in (a + 1)..(a + k + 1) : out[j].handle # sup[i].handle

\* C3: a modelspace primary followed by k >= 0 dependents and a SEQEND is
\* yielded by either iterator as exactly one logical entity that owns the
\* k dependents in order plus the terminator; none of the k + 1 records is
\* yielded on its own.
C3_CompositeLinking ==
    LET sup == Supported(fs["src"]) IN
    \A a \in 1..Len(sup), k \in 0..Len(sup) :
        (Composite(sup, a, k) /\ sup[a].paperspace = 0)
        => /\ ms["g1"].pc = "done" => YieldedWhole(OutIndexed, sup, a, k)
           /\ (HasHeader(fs["src"]) /\ sp["S"].pc = "done")
              => YieldedWhole(OutStream, sup, a, k)

\* C4: neither iterator ever yields a VERTEX, ATTRIB or SEQEND as an
\* entity of its own.
C4_NoStandaloneDependent ==
    \A e \in Range(OutIndexed) \cup Range(OutStream) :
        e.type \notin DependentTypes

\* the dependents and the terminator of the primary sup[a]: the run of
\* records of its dependent type after it and the SEQEND that ends the run
OwnRecords(sup, a) ==
    {i \in (a + 1)..Len(sup) :
        /\ \A j \in (a + 1)..(i - 1) :
              sup[j].type = LINKED_ENTITIES(sup[a].type)
        /\ sup[i].type \in {LINKED_ENTITIES(sup[a].type), "SEQEND"}}

\* the entities an iterator holds or has yielded, with all they own
Held(out, queued) ==
    LET top == Range(out) \cup Range(queued) IN
    top \cup UNION {Range(e.links) \cup Range(e.seqend) : e \in top}

\* C5: no yielded entity has a non-zero paperspace flag, and the records a
\* paperspace POLYLINE/INSERT owns are consumed by it: none of them is
\* yielded, queued or attached to a queued or yielded entity.
C5_PaperspaceConsumes ==
    LET sup == Supported(fs["src"])
        HeldIndexed == Held(OutIndexed, ms["g1"].queued)
        HeldStream == Held(OutStream, sp["S"].queued)
    IN /\ \A e \in Range(OutIndexed) \cup Range(OutStream) :
             e.paperspace = 0
       /\ \A a \in 1..Len(sup) :
             (IsPrimary(sup[a]) /\ sup[a].paperspace # 0)
             => \A i \in OwnRecords(sup, a) :
                   \A e \in HeldIndexed \cup HeldStream :
                      e.handle # sup[i].handle

\* both iterators have finished a source in which a paperspace primary
\* with a dependent and a terminator lies between two yielded entities
C5_Witness ==
    LET sup == Supported(fs["src"]) IN
    /\ ms["g1"].pc = "done" /\ sp["S"].pc = "done"
    /\ \E a \in 2..Len(sup) :
          /\ IsPrimary(sup[a]) /\ sup[a].paperspace # 0
          /\ Composite(sup, a, 1)
          /\ sup[a - 1].handle \in Range(Handles(OutIndexed))
          /\ sup[a - 1].handle \in Range(Handles(OutStream))
          /\ a + 3 <= Len(sup)
          /\ sup[a + 3].handle \in Range(Handles(OutIndexed))


(* ----------------------- specification: export ------------------------ *)

\* the record kinds of the exported sources
ExportKinds ==
    {K("LINE", 0, 0), K("POLYLINE", 0, 0), K("VERTEX", 0, 0),
     K("SEQEND", 0, 0), K("INSERT", 0, 1), K("INSERT", 0, 0),
     K("ATTRIB", 0, 0), K("DIMENSION", 0, 0)}

ExportDeepKinds ==
    {K("LINE", 0, 0), K("POLYLINE", 0, 0), K("VERTEX", 0, 0),
     K("SEQEND", 0, 0)}

\* records that carry cross-references
StripKinds ==
    {KX("LINE", {"xdata", "appdata", "extension_dict", "reactors"}),
     KX("POLYLINE", {"xdata", "reactors"}), KX("VERTEX", {"reactors"}),
     K("SEQEND", 0, 0)}

\* R12 without OBJECTS, R10 with OBJECTS, R2000 whose OBJECTS section
\* has no ENDSEC, R2000 without OBJECTS
ExportLayouts ==
    {StdLayout,
     L(TRUE, "AC1006", FALSE, TRUE, TRUE, "ok"),
     L(TRUE, "AC1015", FALSE, TRUE, TRUE, "noend"),
     L(TRUE, "AC1009", FALSE, TRUE, TRUE, "noend"),
     L(TRUE, "AC1015", FALSE, TRUE, TRUE, "none")}

R2000Layout == L(TRUE, "AC1015", TRUE, TRUE, TRUE, "ok")

InitExport ==
    /\ \/ \E b \in Bodies(ExportKinds, MaxExpRecs) :
             fs = OnlySrc(FileOf(R2000Layout, b, TRUE))
       \/ \E b \in Bodies(ExportDeepKinds, MaxExpDeep) :
             fs = OnlySrc(FileOf(R2000Layout, b, TRUE))
       \/ \E l \in ExportLayouts, b \in Bodies(ExportKinds, MaxExpLay) :
             fs = OnlySrc(FileOf(l, b, TRUE))
       \/ \E b \in Bodies(StripKinds, MaxStripRecs) :
             fs = OnlySrc(FileOf(R2000Layout, b, TRUE))
    /\ rd = [r \in Readers |-> NewReader(IF r = "A" THEN "src" ELSE "dst")]
    /\ ms = [g \in Gens |-> NewGen]
    /\ sp = [s \in Streams |-> NewStream("src")]
    /\ wr = NoWriter
    /\ tg = NoTagger
    /\ oc = NoCollection

\* the caller opens the source and an exporter, collects the entities of
\* modelspace(), writes some of them, closes the exporter and iterates the
\* destination
NextExport ==
    \/ Open("A")
    \/ wr.st # "none" /\ MsNext("g1")
    \/ ms["g1"].pc = "new" /\ Export
    \/ Ended("g1") /\ Write
    \/ Ended("g1") /\ Skip
    \/ Ended("g1") /\ wr.n = Len(ms["g1"].out) /\ Close
    \/ wr.st = "closed" /\ Open("B")
    \/ MsNext("g2")

SpecExport == InitExport /\ [][NextExport]_vars


(* --------------------- specification: skip-safety --------------------- *)

\* the file "ref" is the file "src" without its DIMENSION records
InitSkip ==
    /\ \E b \in Bodies(SkipKinds, MaxSkipRecs) :
          fs = [n \in Files |->
                  IF n = "src" THEN FileOf(StdLayout, b, TRUE)
                  ELSE IF n = "ref" THEN FileOf(StdLayout, b, FALSE)
                  ELSE <<>>]
    /\ rd = [r \in Readers |-> NewReader(IF r = "A" THEN "src" ELSE "ref")]
    /\ ms = [g \in Gens |-> NewGen]
    /\ sp = [s \in Streams |->
                NewStream(IF s = "S" THEN "src" ELSE "ref")]
    /\ wr = NoWriter
    /\ tg = NoTagger
    /\ oc = NoCollection

StreamEnded(s) == sp[s].pc \in {"done", "error"}

\* the caller runs both iterators on both files, one after the other
NextSkip ==
    \/ Open("A")
    \/ MsNext("g1")
    \/ Ended("g1") /\ Open("B")
    \/ MsNext("g2")
    \/ Ended("g2") /\ SpNext("S")
    \/ StreamEnded("S") /\ SpNext("R")

SpecSkip == InitSkip /\ [][NextSkip]_vars

\* every DIMENSION record of the ENTITIES section lies between two
\* supported records
InsertedBetween(file) ==
    LET recs == Records(file) IN
    \A i \in 1..Len(recs) :
        recs[i].type = "DIMENSION"
        => /\ \E j \in 1..(i - 1) : IsSupported(recs[j])
           /\ \E j \in (i + 1)..Len(recs) : IsSupported(recs[j])

\* C6: when the unsupported records of the source all lie between
\* supported records, both iterators end as on the file without them and
\* yield the same entities in the same order, and the indexed iterator is
\* positioned at the start of the next record's span whenever it yields
\* or ends.
C6_SkipSafety ==
    InsertedBetween(fs["src"])
    => /\ (Ended("g1") /\ Ended("g2"))
          => /\ ms["g1"].out = ms["g2"].out
             /\ ms["g1"].pc = ms["g2"].pc
       /\ (StreamEnded("S") /\ StreamEnded("R"))
          => /\ sp["S"].out = sp["R"].out
             /\ sp["S"].pc = sp["R"].pc
       /\ ms["g1"].pc \in {"yielded", "done"}
          => rd["A"].pos = ms["g1"].entry.location

\* all four iterations have ended on a source with two DIMENSION records
\* between supported records, and entities were yielded after them
C6_Witness ==
    LET recs == Records(fs["src"]) IN
    /\ InsertedBetween(fs["src"])
    /\ \E i \in 2..Len(recs) :
          /\ recs[i - 1].type = "DIMENSION" /\ recs[i].type = "DIMENSION"
          /\ i + 1 <= Len(recs)
          /\ recs[i + 1].handle \in Range(Handles(ms["g1"].out))
    /\ ms["g1"].pc = "done" /\ ms["g2"].pc = "done"
    /\ sp["S"].pc = "done" /\ sp["R"].pc = "done"
    /\ Len(sp["S"].out) >= 1


(* -------------------------- claims: export ---------------------------- *)

\* C7: when all N entities yielded by modelspace() of the source have
\* been written in iteration order and the exporter is closed, the
\* destination is accepted, its modelspace() raises no error and, once
\* finished, has yielded the same N entities (types, attributes, owned
\* dependents and terminators) in the same order.
C7_RoundTrip ==
    (ms["g1"].pc = "done" /\ wr.st = "closed"
     /\ wr.written = ms["g1"].out)
    => /\ rd["B"].st # "rejected"
       /\ ms["g2"].pc # "error"
       /\ ms["g2"].pc = "done" => ms["g2"].out = ms["g1"].out

\* the destination has been iterated to its end after an export of at
\* least two entities, one of them a composite that owns a dependent
C7_Witness ==
    /\ ms["g1"].pc = "done" /\ wr.st = "closed"
    /\ wr.written = ms["g1"].out
    /\ ms["g2"].pc = "done"
    /\ Len(ms["g2"].out) >= 2
    /\ \E e \in Range(ms["g2"].out) : Len(e.links) >= 1 /\ e.seqend # <<>>

\* C8: right after export(), before any write, the destination holds
\* exactly the source bytes [0, L), L being the offset of the first index
\* entry after the SECTION entry of ENTITIES: all tags through the
\* ENTITIES section name, and no entity record.
C8_ExportPrefix ==
    (wr.st = "open" /\ wr.n = 0)
    => /\ fs["dst"] = SubSeq(fs["src"], 1, EntitiesAt(fs["src"]) + 1)
       /\ Len(fs["dst"])
            = At(rd["A"].index, rd["A"].sections["ENTITIES"] + 1).location

\* an exporter has just been opened on a source with a section before
\* ENTITIES and at least one entity record
C8_Witness ==
    /\ wr.st = "open" /\ wr.n = 0
    /\ EntitiesAt(fs["src"]) > 8
    /\ Len(Records(fs["src"])) >= 1
    /\ ms["g1"].pc = "new"

\* the OBJECTS section of a file: its SECTION tag through its ENDSEC
ObjectsBytes(file) ==
    LET i == CHOOSE j \in 1..(Len(file) - 1) :
                file[j] = T(0, "SECTION") /\ file[j + 1] = T(2, "OBJECTS")
    IN SubSeq(file, i, FirstAfter(file, i, "ENDSEC"))

\* C9: a close() that returns has appended the ENDSEC of ENTITIES, then
\* the OBJECTS section of the source (SECTION through ENDSEC) if and only
\* if the version is greater than 'AC1009', then EOF, and has closed the
\* destination.
C9_CloseAppends ==
    [][(wr.st = "open" /\ wr'.st # "open")
       => IF wr'.st = "closed"
          THEN fs'["dst"] =
                 fs["dst"] \o <<T(0, "ENDSEC")>>
                 \o (IF LexGT(Chars(FileVersion(fs["src"])),
                              Chars("AC1009"))
                     THEN ObjectsBytes(fs["src"]) ELSE <<>>)
                 \o <<T(0, "EOF")>>
          ELSE wr'.err = "DXFStructureError"]_vars

\* a closed destination of an R2000 source with written entities that
\* ends with the copied OBJECTS section and EOF
C9_Witness ==
    /\ wr.st = "closed"
    /\ FileVersion(fs["src"]) = "AC1015"
    /\ Len(wr.written) >= 1
    /\ T(2, "OBJECTS") \in Range(fs["dst"])
    /\ fs["dst"][Len(fs["dst"])] = T(0, "EOF")

\* C10: as long as close() has not returned the destination holds no EOF
\* marker, and while the exporter is open it holds no OBJECTS section;
\* only close() finalizes it.
C10_UnfinalizedInvalid ==
    /\ wr.st # "closed" => T(0, "EOF") \notin Range(fs["dst"])
    /\ wr.st = "open" => T(2, "OBJECTS") \notin Range(fs["dst"])

\* an open exporter of an R2000 source after two writes
C10_Witness ==
    /\ wr.st = "open"
    /\ FileVersion(fs["src"]) = "AC1015"
    /\ Len(wr.written) >= 2


(* --------------------------- claims: write ---------------------------- *)

\* the bytes a step has appended to the destination
Appended == SubSeq(fs'["dst"], Len(fs["dst"]) + 1, Len(fs'["dst"]))

\* a step in which a write() has returned
WriteReturned ==
    /\ wr.st = "open" /\ wr'.st = "open"
    /\ Len(wr'.written) = Len(wr.written) + 1

\* type and handle of each entity of a sequence
Heads(seq) ==
    [i \in 1..Len(seq) |-> [type |-> seq[i].type, handle |-> seq[i].handle]]

\* C11: a write() that returns has appended the primary record, then the
\* owned dependents in their original order, then the terminator, and a
\* dependent-capable entity (POLYLINE, INSERT with attributes following)
\* always has its SEQEND emitted last.
C11_WriteOrder ==
    [][WriteReturned
       => LET e == wr'.written[Len(wr'.written)]
              recs == RecordsFrom(Appended, 1, Len(Appended) + 1)
          IN /\ Heads(recs) = Heads(<<e>> \o e.links \o e.seqend)
             /\ IsPrimary(e) \/ e.type = "POLYLINE"
                => recs[Len(recs)].type = "SEQEND"]_vars

\* a POLYLINE with two vertices and its terminator has been written
C11_Witness ==
    /\ wr.st = "open"
    /\ \E i \in 1..Len(wr.written) :
          /\ wr.written[i].type = "POLYLINE"
          /\ Len(wr.written[i].links) = 2
          /\ wr.written[i].seqend # <<>>

\* a step in which write() was called
WriteCalled == wr.st = "open" /\ wr'.calls = wr.calls + 1

\* the tags of the first record of a tag sequence
FirstRecord(tags) == SubSeq(tags, 1, NextRecord(tags, 1) - 1)

\* C12: write(entity) sets the extended data, the application data, the
\* extension dictionary and the reactor list of the entity to None before
\* it serializes it: the record written for the entity holds none of their
\* tags, and the caller's entity is left with the four attributes cleared.
C12_StripsReferences ==
    [][WriteCalled
       => LET e == ms'["g1"].out[wr.n + 1] IN
          /\ e.xdata = <<>> /\ e.appdata = <<>>
          /\ e.extension_dict = <<>> /\ e.reactors = <<>>
          /\ \A t \in Range(FirstRecord(wr'.text)) :
                t.code \notin {102, 1001}
          /\ WriteReturned
             => \A t \in Range(FirstRecord(Appended)) :
                   t.code \notin {102, 1001}]_vars

\* a LINE that came with all four kinds of cross-references has been
\* written
C12_Witness ==
    /\ wr.st = "open" /\ Len(wr.written) >= 1
    /\ LET recs == Records(fs["src"]) IN
       \E i \in 1..Len(recs) :
          /\ recs[i].type = "LINE"
          /\ recs[i].xdata # <<>> /\ recs[i].appdata # <<>>
          /\ recs[i].extension_dict # <<>> /\ recs[i].reactors # <<>>
          /\ recs[i].handle \in Range(Handles(wr.written))

(* ---------------- specification: entities of another source ---------- *)

InitForeign ==
    /\ \E l \in {StdLayout, R2000Layout},
          b \in Bodies(ExportDeepKinds, MaxForeignRecs) :
          fs = OnlySrc(FileOf(l, b, TRUE))
    /\ rd = [r \in Readers |-> NewReader(IF r = "A" THEN "src" ELSE "dst")]
    /\ ms = [g \in Gens |-> NewGen]
    /\ sp = [s \in Streams |-> NewStream("src")]
    /\ wr = NoWriter
    /\ tg = NoTagger
    /\ oc = NoCollection

\* the caller exports entities of the source and entities it got from
\* another source
NextForeign ==
    \/ Open("A")
    \/ ms["g1"].pc = "new" /\ Export
    \/ wr.st # "none" /\ MsNext("g1")
    \/ Ended("g1") /\ Write
    \/ WriteForeign
    \/ Ended("g1") /\ wr.n = Len(ms["g1"].out) /\ Close

SpecForeign == InitForeign /\ [][NextForeign]_vars

\* a step in which write() was called with an entity of another source
ForeignWriteCalled == WriteCalled /\ wr'.foreign = wr.foreign + 1

ForeignHandles == {"F1", "F2", "F3", "F4"}

\* C13 as claimed: write() of an entity that does not come from the
\* writer's source fails and appends no bytes to the destination.
C13_RejectsForeign ==
    [][ForeignWriteCalled => ~WriteReturned /\ fs'["dst"] = fs["dst"]]_vars

\* C13 as amended: write() does not test the origin of the entity; called
\* with a complete entity of another source it returns and has appended
\* the records of that entity, stripped like any other, to the destination.
C13_WritesForeign ==
    [][ForeignWriteCalled
       => /\ WriteReturned
          /\ LET e == wr'.written[Len(wr'.written)]
                 recs == RecordsFrom(Appended, 1, Len(Appended) + 1)
             IN /\ e.handle \in ForeignHandles
                /\ Heads(recs) = Heads(<<e>> \o e.links \o e.seqend)
                /\ \A t \in Range(FirstRecord(Appended)) :
                      t.code \notin {102, 1001}]_vars

\* the destination holds the records of an entity of another source
\* after an entity of the writer's own source
C13_Witness ==
    /\ wr.st = "open"
    /\ Len(wr.written) >= 2
    /\ wr.written[1].handle \notin ForeignHandles
    /\ wr.written[2].handle = "F2"
    /\ T(5, "F4") \in Range(fs["dst"])

(* ---------------------- specification: opening ----------------------- *)

\* every combination of sections and versions
OpenLayouts ==
    {L(h, v, t, e, TRUE, o) :
        h \in BOOLEAN, v \in {"AC1006", "AC1009", "AC1015"},
        t \in BOOLEAN, e \in BOOLEAN, o \in {"none", "ok", "noend"}}

InitOpen ==
    /\ \E l \in OpenLayouts, b \in Bodies(ExportDeepKinds, MaxOpenRecs) :
          fs = OnlySrc(FileOf(l, b, TRUE))
    /\ rd = [r \in Readers |-> NewReader(IF r = "A" THEN "src" ELSE "ref")]
    /\ ms = [g \in Gens |-> NewGen]
    /\ sp = [s \in Streams |->
                NewStream(IF s = "S" THEN "src" ELSE "ref")]
    /\ wr = NoWriter
    /\ tg = NoTagger
    /\ oc = NoCollection

\* the caller opens the source and iterates it
NextOpen ==
    \/ Open("A")
    \/ MsNext("g1")

SpecOpen == InitOpen /\ [][NextOpen]_vars

\* the file holds a SECTION record with this name
HasSection(file, name) ==
    \E i \in 1..(Len(file) - 1) :
        file[i] = T(0, "SECTION") /\ file[i + 1] = T(2, name)

\* the version of the file compares greater than 'AC1009'
Newer(file) == LexGT(Chars(FileVersion(file)), Chars("AC1009"))

\* C14: opening a source without ENTITIES section fails with
\* DXFStructureError; no iteration of it starts and no entity is yielded.
C14_MissingEntities ==
    (rd["A"].st # "new" /\ ~HasSection(fs["src"], "ENTITIES"))
    => /\ rd["A"].st = "rejected"
       /\ rd["A"].err = "DXFStructureError"
       /\ \A g \in Gens : ms[g].pc = "new" /\ ms[g].out = <<>>

\* a source with HEADER, TABLES (with a layer named ENTITIES) and OBJECTS
\* but no ENTITIES section has been rejected
C14_Witness ==
    /\ rd["A"].st = "rejected"
    /\ ~HasSection(fs["src"], "ENTITIES")
    /\ HasSection(fs["src"], "TABLES") /\ HasSection(fs["src"], "OBJECTS")
    /\ T(2, "ENTITIES") \in Range(fs["src"])

\* C15: a constructed IterDXF has ENTITIES in its section map and, when
\* its version is greater than 'AC1009', OBJECTS too; a source with
\* ENTITIES of version 'AC1009' or lower is accepted without OBJECTS, a
\* newer one without OBJECTS is rejected.
C15_SectionMap ==
    LET r == rd["A"]
        file == fs["src"]
    IN /\ r.st = "open"
          => /\ "ENTITIES" \in DOMAIN r.sections
             /\ LexGT(Chars(r.version), Chars("AC1009"))
                => "OBJECTS" \in DOMAIN r.sections
       /\ (r.st # "new" /\ HasSection(file, "ENTITIES")
           /\ ~HasSection(file, "OBJECTS"))
          => (r.st = "open") = ~Newer(file)

\* an R12 source without OBJECTS has been accepted and iterated
C15_Witness ==
    /\ rd["A"].st = "open"
    /\ FileVersion(fs["src"]) = "AC1009"
    /\ HasSection(fs["src"], "HEADER")
    /\ ~HasSection(fs["src"], "OBJECTS")
    /\ ms["g1"].pc = "done" /\ Len(ms["g1"].out) = 1

(* ------------------- specification: binary_tagger -------------------- *)

\* the lines of the streams: group codes in and out of range, with white
\* space, text, and bytes that are not ASCII
Lines == {"0", " 1071", "1072", "-1", "abc", "<C3><A4>"}

InitTagger ==
    /\ fs = [n \in Files |-> <<>>]
    /\ rd = [r \in Readers |-> NewReader("src")]
    /\ ms = [g \in Gens |-> NewGen]
    /\ sp = [s \in Streams |-> NewStream("src")]
    /\ wr = NoWriter
    /\ oc = NoCollection
    /\ \E n \in 0..MaxLines, enc \in {"", "cp1252"} :
          \E lines \in [1..n -> Lines] : tg = NewTagger(lines, enc)

NextTagger ==
    \/ TgNext
    \/ TgStop

SpecTagger == InitTagger /\ [][NextTagger]_vars

\* a group-code line that is an integer in [0, 1071]
ValidCode(line) == line \in {"0", " 1071"}

RECURSIVE GoodTags(_, _, _)
\* the tags of the stream from line number i on, up to the first
\* group-code line that is not valid or missing
GoodTags(lines, i, encoding) ==
    IF i > Len(lines) \/ ~ValidCode(lines[i]) THEN <<>>
    ELSE LET raw == IF i + 1 > Len(lines) THEN "" ELSE lines[i + 1]
             value == IF encoding = "" THEN raw ELSE Decode(raw, encoding)
         IN <<T(IF lines[i] = "0" THEN 0 ELSE 1071, value)>>
            \o GoodTags(lines, i + 2, encoding)

\* a is a prefix of b
IsPrefix(a, b) == Len(a) <= Len(b) /\ a = SubSeq(b, 1, Len(a))

\* C16: every tag binary_tagger yields has a code in [0, 1071]; it fails
\* with DXFStructureError at the first group-code line that is no integer
\* or lies outside that range, having yielded the tags before it, and no
\* tag is produced after the error.
C16_TaggerRejects ==
    LET good == GoodTags(tg.lines, 1, tg.encoding) IN
    /\ \A t \in Range(tg.out) : 0 <= t.code /\ t.code <= 1071
    /\ tg.st = "suspended" => IsPrefix(tg.out, good)
    /\ tg.st \in {"error", "stopped"}
       => tg.err = "DXFStructureError" /\ tg.out = good

\* the tagger has yielded a tag, failed at code 1072 and been resumed once
\* more
C16_Witness ==
    /\ tg.st = "stopped" /\ tg.err = "DXFStructureError"
    /\ Len(tg.out) = 1
    /\ Len(tg.lines) = 4 /\ tg.lines[3] = "1072"

\* a stream of whole tags with valid group codes
WellFormed(lines) ==
    /\ Len(lines) % 2 = 0
    /\ \A i \in 1..Len(lines) : i % 2 = 1 => ValidCode(lines[i])

\* C17: on a stream that consists only of well-formed tags binary_tagger
\* yields each tag once, in stream order, and then ends normally at the
\* end of the input, without an error.
C17_EndsNormally ==
    (WellFormed(tg.lines) /\ tg.st \in {"error", "done", "stopped"})
    => /\ tg.err = "none"
       /\ tg.out = GoodTags(tg.lines, 1, tg.encoding)

(* --------------- specification: streams without HEADER --------------- *)

\* sources without HEADER section: ENTITIES first, and TABLES first
BareLayouts == {BareLayout, L(FALSE, "AC1009", TRUE, TRUE, TRUE, "none")}

InitBare ==
    /\ \E l \in BareLayouts, b \in Bodies(ExportDeepKinds, MaxBareDeep) :
          fs = OnlySrc(FileOf(l, b, TRUE))
    /\ rd = [r \in Readers |-> NewReader(IF r = "A" THEN "src" ELSE "ref")]
    /\ ms = [g \in Gens |-> NewGen]
    /\ sp = [s \in Streams |->
                NewStream(IF s = "S" THEN "src" ELSE "ref")]
    /\ wr = NoWriter
    /\ tg = NoTagger
    /\ oc = NoCollection

\* the source is iterated with modelspace() and streamed through
\* single_pass_modelspace
NextBare ==
    \/ Open("A")
    \/ MsNext("g1")
    \/ SpNext("S")

SpecBare == InitBare /\ [][NextBare]_vars

\* the stream starts with its ENTITIES section
EntitiesFirst(file) == EntitiesAt(file) = 1

\* the ENTITIES section holds LINE, POLYLINE, VERTEX, VERTEX, SEQEND
Scenario(file) ==
    LET recs == Records(file) IN
    /\ Len(recs) = 5
    /\ [i \in 1..5 |-> recs[i].type]
         = <<"LINE", "POLYLINE", "VERTEX", "VERTEX", "SEQEND">>

\* C18 as claimed: on a stream whose first section is ENTITIES
\* single_pass_modelspace keeps the defaults cp1252 and AC1009 and yields
\* the entities of the section; LINE, POLYLINE, VERTEX, VERTEX, SEQEND
\* gives a LINE, then a POLYLINE that owns the two vertices.
C18_HeaderlessYields ==
    (EntitiesFirst(fs["src"]) /\ StreamEnded("S"))
    => /\ sp["S"].encoding = "cp1252" /\ sp["S"].version = "AC1009"
       /\ Scenario(fs["src"])
          => /\ Len(OutStream) = 2
             /\ OutStream[1].type = "LINE"
             /\ OutStream[2].type = "POLYLINE"
             /\ Len(OutStream[2].links) = 2

\* C18 as amended: on a stream whose first section is ENTITIES
\* single_pass_modelspace keeps the defaults cp1252 and AC1009 and yields
\* no entity at any time: the scan for the end of the header runs to the
\* ENDSEC of the ENTITIES section.
C18_HeaderlessYieldsNothing ==
    EntitiesFirst(fs["src"])
    => /\ sp["S"].encoding = "cp1252" /\ sp["S"].version = "AC1009"
       /\ OutStream = <<>>
       /\ sp["S"].pc \notin {"yielded", "done"}

\* the stream of the scenario has ended without an entity, and
\* modelspace() has yielded the two entities of the same bytes
C18_Witness ==
    /\ EntitiesFirst(fs["src"]) /\ Scenario(fs["src"])
    /\ StreamEnded("S") /\ OutStream = <<>>
    /\ ms["g1"].pc = "done" /\ Len(OutIndexed) = 2
    /\ Len(OutIndexed[2].links) = 2

(* ----------------- specification: streams with text ------------------ *)

\* a HEADER section that names the version in the variable `var`
HeaderVars(var, version, codepage) ==
    <<T(0, "SECTION"), T(2, "HEADER"), T(9, var), T(1, version),
      T(9, "$DWGCODEPAGE"), T(3, codepage), T(0, "ENDSEC")>>

TextKinds ==
    {KT("TEXT", "<C3><A4>"), KT("TEXT", "abc"), K("LINE", 0, 0),
     K("POLYLINE", 0, 0), KT("VERTEX", "<C3><A4>"), K("SEQEND", 0, 0)}

TextFile(var, version, codepage, body) ==
    HeaderVars(var, version, codepage)
    \o <<T(0, "SECTION"), T(2, "ENTITIES")>> \o Flatten(body, 1, TRUE)
    \o <<T(0, "ENDSEC"), T(0, "EOF")>>

InitText ==
    /\ \E var \in {"$ACADVER", "$ACADVERSION"},
          version \in {"AC1009", "AC1015"},
          codepage \in {"ANSI_1252", "ANSI_1250"},
          b \in Bodies(TextKinds, MaxTextRecs) :
          fs = OnlySrc(TextFile(var, version, codepage, b))
    /\ rd = [r \in Readers |-> NewReader(IF r = "A" THEN "src" ELSE "ref")]
    /\ ms = [g \in Gens |-> NewGen]
    /\ sp = [s \in Streams |->
                NewStream(IF s = "S" THEN "src" ELSE "ref")]
    /\ wr = NoWriter
    /\ tg = NoTagger
    /\ oc = NoCollection

NextText == SpNext("S")

SpecText == InitText /\ [][NextText]_vars

\* the value bytes of the code 1 tag of the record with the given handle
RawText(file, handle) ==
    LET recs == Records(file)
        i == CHOOSE j \in 1..Len(recs) : recs[j].handle = handle
    IN recs[i].text

\* the entities of a sequence together with the entities they own
RECURSIVE WithLinks(_)
WithLinks(seq) ==
    IF seq = <<>> THEN <<>>
    ELSE <<Head(seq)>> \o Head(seq).links \o WithLinks(Tail(seq))

\* C19: the text of every entity yielded by single_pass_modelspace is the
\* value bytes of its record decoded as UTF-8 when the version resolved
\* from the header is greater than AC1009, and decoded with the encoding
\* of the header codepage otherwise.
C19_DecodesByVersion ==
    LET file == fs["src"]
        all == WithLinks(OutStream)
    IN \A i \in 1..Len(all) :
          all[i].text =
             Decode(RawText(file, all[i].handle),
                    IF NewerThanR12(sp["S"].version) THEN "utf-8"
                    ELSE FileEncoding(file))

(* ------------------- OBJECTS section without ENDSEC ------------------- *)

\* the file has an OBJECTS section and no ENDSEC record after its start
NoObjectsEnd(file) ==
    \E i \in 2..Len(file) :
       /\ file[i] = T(2, "OBJECTS") /\ file[i - 1] = T(0, "SECTION")
       /\ \A j \in (i + 1)..Len(file) : file[j] # T(0, "ENDSEC")

\* the file with the ENDSEC of the last section put in before EOF
WithEndsec(file) ==
    SubSeq(file, 1, Len(file) - 1) \o <<T(0, "ENDSEC"), T(0, "EOF")>>

RECURSIVE Drain(_, _, _)
\* modelspace() iterated to its end or to its exception
Drain(gen, reader, file) ==
    IF gen.pc \notin {"new", "yielded"} THEN gen
    ELSE LET n == RunGen(gen, reader, file) IN
         Drain(n.gen, [reader EXCEPT !.pos = n.pos], file)

\* close() is called on the open writer
CloseCalled == wr.st = "open" /\ wr'.st # "open"

\* C20: for a source whose OBJECTS section has no ENDSEC, opening the
\* source and iterating it go as they do for the same source with the
\* ENDSEC in place, export() and write() raise no DXFStructureError;
\* close() fails with DXFStructureError when the version is greater than
\* 'AC1009', where it has to copy OBJECTS, and returns normally
\* otherwise.
C20_LazyObjectsCheck ==
    [][NoObjectsEnd(fs["src"])
       => IF CloseCalled
          THEN IF NewerThanR12(FileVersion(fs["src"]))
               THEN wr'.st = "error" /\ wr'.err = "DXFStructureError"
               ELSE wr'.st = "closed" /\ wr'.err = wr.err
          ELSE LET good == WithEndsec(fs["src"])
                   reader == IterDXF("src", good)
                   gen == Drain(NewGen, reader, good)
               IN /\ rd'["A"].st # "new" => rd'["A"].err = reader.err
                  /\ IsPrefix(Handles(ms'["g1"].out), Handles(gen.out))
                  /\ ms'["g1"].err \in {"none", gen.err}
                  /\ wr'.err = "DXFStructureError" => wr' = wr]_vars

\* close() has failed on a source whose OBJECTS section has no ENDSEC,
\* after the source was opened, iterated to its end and an entity written
C20_Witness ==
    /\ NoObjectsEnd(fs["src"])
    /\ rd["A"].err = "none" /\ ms["g1"].pc = "done"
    /\ Len(wr.written) >= 1
    /\ wr.st = "error" /\ wr.err = "DXFStructureError"

(* -------------- specification: streams with a malformed tag ---------- *)

\* tags whose code line binary_tagger rejects
BadTags == {T(1072, "0"), T(0 - 1, "0")}

Insert(file, k, t) ==
    SubSeq(file, 1, k) \o <<t>> \o SubSeq(file, k + 1, Len(file))

InitBad ==
    /\ \E b \in Bodies(PolyKinds, MaxBadRecs), t \in BadTags :
          LET file == FileOf(StdLayout, b, TRUE) IN
          \E k \in 0..Len(file) : fs = OnlySrc(Insert(file, k, t))
    /\ rd = [r \in Readers |-> NewReader(IF r = "A" THEN "src" ELSE "ref")]
    /\ ms = [g \in Gens |-> NewGen]
    /\ sp = [s \in Streams |->
                NewStream(IF s = "S" THEN "src" ELSE "ref")]
    /\ wr = NoWriter
    /\ tg = NoTagger
    /\ oc = NoCollection

NextBad == SpNext("S")

SpecBad == InitBad /\ [][NextBad]_vars

\* offset of the first malformed tag of the file
BadAt(file) ==
    CHOOSE k \in 0..(Len(file) - 1) :
       /\ At(file, k).code \notin 0..1071
       /\ \A j \in 0..(k - 1) : At(file, j).code \in 0..1071

\* the file without its malformed tags
Clean(file) == SelectSeq(file, LAMBDA t : t.code \in 0..1071)

RECURSIVE StreamAll(_, _)
\* single_pass_modelspace iterated to its end or to its exception
StreamAll(s, file) ==
    IF s.pc \notin {"new", "yielded"} THEN s
    ELSE StreamAll(RunStream(s, file), file)

\* C21: single_pass_modelspace reads nothing beyond a malformed tag; when
\* its iteration has not ended before that tag, it ends there with
\* DXFStructureError; the entities yielded at any time are a prefix of
\* those the stream without the malformed tag yields.
C21_ErrorEndsStream ==
    LET file == fs["src"]
        s == sp["S"]
        bad == BadAt(file)
    IN /\ s.pos <= bad
       /\ IsPrefix(s.out, StreamAll(NewStream("src"), Clean(file)).out)
       /\ s.pos = bad
          => \/ s.pc = "error" /\ s.err = "DXFStructureError"
             \/ s.pc = "yielded"
                /\ LET n == RunStream(s, file) IN
                   /\ n.pc = "error" /\ n.err = "DXFStructureError"
                   /\ n.out = s.out
             \/ s.pc = "done"
             \/ s.pc = "new" /\ bad = 0

\* the stream has yielded an entity and then ended with the error at a
\* malformed tag inside the ENTITIES section, where the stream without
\* that tag yields more
C21_Witness ==
    LET file == fs["src"]
        s == sp["S"]
    IN /\ s.pc = "error" /\ s.pos = BadAt(file)
       /\ BadAt(file) > EntitiesAt(file)
       /\ Len(s.out) >= 1
       /\ Len(StreamAll(NewStream("src"), Clean(file)).out) > Len(s.out)

(* ------------------ specification: the source file handle ------------ *)

InitHandle ==
    /\ \E l \in OpenLayouts, b \in Bodies(ExportDeepKinds, MaxHandleRecs) :
          fs = OnlySrc(FileOf(l, b, TRUE))
    /\ rd = [r \in Readers |-> NewReader(IF r = "A" THEN "src" ELSE "ref")]
    /\ ms = [g \in Gens |-> NewGen]
    /\ sp = [s \in Streams |->
                NewStream(IF s = "S" THEN "src" ELSE "ref")]
    /\ wr = NoWriter
    /\ tg = NoTagger
    /\ oc = NoCollection

\* a source is opened, iterated, and closed at any point of the iteration
NextHandle ==
    \/ Open("A")
    \/ MsNext("g1")
    \/ RdClose("A")

SpecHandle == InitHandle /\ [][NextHandle]_vars

\* C22: after a rejected construction the source file is not open; after
\* a successful one it is open until IterDXF.close(), and closed after it,
\* wherever the modelspace() iteration stands.
C22_HandleReleased ==
    LET r == rd["A"] IN
    /\ r.st = "rejected" => ~r.fopen
    /\ r.st = "open" => r.fopen
    /\ r.st = "closed" => ~r.fopen

(* ----------------------- closing of the stream ------------------------ *)

\* C23: when the iteration of single_pass_modelspace has ended, at the
\* ENDSEC of the ENTITIES section, at the end of the input or at a tag
\* error, the stream it was given is closed.
C23_StreamClosed == StreamEnded("S") => sp["S"].closed

(* ------------------- specification: ObjectCollection ------------------ *)

InitDup ==
    /\ fs = OnlySrc(<<>>)
    /\ rd = [r \in Readers |-> NewReader(IF r = "A" THEN "src" ELSE "ref")]
    /\ ms = [g \in Gens |-> NewGen]
    /\ sp = [s \in Streams |->
                NewStream(IF s = "S" THEN "src" ELSE "ref")]
    /\ wr = NoWriter
    /\ tg = NoTagger
    /\ \E names \in SUBSET Names : oc = NewCollection(names)

NextDup == DuplicateEntry

SpecDup == InitDup /\ [][NextDup]_vars

\* C24: duplicate_entry(name, new_name) raises DXFValueError and changes
\* neither the dictionary nor the objects when `name` is no key;
\* otherwise it returns a new object, a copy of the entry `name` with the
\* name new_name, the key new_name maps to that copy, every other key
\* maps to what it mapped to before, and the original is unchanged.
C24_DuplicateEntry ==
    [][oc'.calls = oc.calls + 1
       => LET name == oc'.last[1]
              new_name == oc'.last[2]
          IN IF name \notin DOMAIN oc.dict
             THEN /\ oc'.err = "DXFValueError"
                  /\ oc'.dict = oc.dict /\ oc'.objs = oc.objs
             ELSE /\ oc'.err = "none"
                  /\ oc'.ret = Len(oc.objs) + 1
                  /\ oc'.objs =
                       Append(oc.objs, [oc.objs[oc.dict[name]]
                                           EXCEPT !.name = new_name])
                  /\ DOMAIN oc'.dict = DOMAIN oc.dict \cup {new_name}
                  /\ oc'.dict[new_name] = oc'.ret
                  /\ \A k \in DOMAIN oc.dict \ {new_name} :
                        oc'.dict[k] = oc.dict[k]]_vars

(* ---------------------- the end of modelspace() ----------------------- *)

\* no handle occurs twice
Distinct(seq) ==
    \A i, j \in 1..Len(seq) : seq[i].handle = seq[j].handle => i = j

\* C25: a modelspace() iteration that has ended stands at the first ENDSEC
\* entry after the start of the ENTITIES section and has read the file up
\* to that record and no further; every model-space entity of the section
\* that is no dependent record was yielded once, in file order, the
\* queued one last; an empty section yields nothing.
C25_EndsAtEndsec ==
    LET g == ms["g1"]
        r == rd["A"]
        sup == Supported(fs["src"])
        top == SelectSeq(sup, LAMBDA e :
                   e.type \notin DependentTypes /\ e.paperspace = 0)
        got == SelectSeq(g.out, LAMBDA e : e.type \notin DependentTypes)
    IN g.pc = "done"
       => LET end == GetEndsec(r.index, r.sections["ENTITIES"] + 1) IN
          /\ end >= 0 /\ g.idx = end
          /\ r.pos = At(r.index, end).location
          /\ Handles(got) = Handles(top)
          /\ Distinct(g.out)
          /\ g.queued # <<>> => g.out[Len(g.out)] = g.queued[1]
          /\ Records(fs["src"]) = <<>> => g.out = <<>>

\* the iteration has ended on a section whose last entity is a POLYLINE
\* with its vertices, yielded after an earlier entity
C25_Witness ==
    LET g == ms["g1"] IN
    /\ g.pc = "done" /\ Len(g.out) >= 2
    /\ g.out[Len(g.out)].type = "POLYLINE"
    /\ Len(g.out[Len(g.out)].links) >= 1
    /\ g.out[Len(g.out)].seqend # <<>>

(* ----------- specification: ENTITIES section without ENDSEC ----------- *)

\* sources whose ENTITIES section has no ENDSEC of its own
NoEndLayouts ==
    {L(h, v, t, TRUE, FALSE, o) :
        h \in BOOLEAN, v \in {"AC1009", "AC1015"}, t \in BOOLEAN,
        o \in {"none", "ok", "noend"}}

InitNoEnd ==
    /\ \E l \in NoEndLayouts, b \in Bodies(ExportDeepKinds, MaxNoEndRecs) :
          fs = OnlySrc(FileOf(l, b, TRUE))
    /\ rd = [r \in Readers |-> NewReader(IF r = "A" THEN "src" ELSE "ref")]
    /\ ms = [g \in Gens |-> NewGen]
    /\ sp = [s \in Streams |->
                NewStream(IF s = "S" THEN "src" ELSE "ref")]
    /\ wr = NoWriter
    /\ tg = NoTagger
    /\ oc = NoCollection

NextNoEnd ==
    \/ Open("A")
    \/ MsNext("g1")

SpecNoEnd == InitNoEnd /\ [][NextNoEnd]_vars

\* the file has an ENTITIES section and no ENDSEC record after its start
NoEntitiesEnd(file) ==
    /\ EntitiesAt(file) > 0
    /\ \A j \in (EntitiesAt(file) + 1)..Len(file) : file[j] # T(0, "ENDSEC")

\* C26: on a source with no ENDSEC after the start of the ENTITIES
\* section a modelspace() iteration does not end normally, and the
\* exception that ends it is DXFStructureError.
C26_MissingEndsec ==
    (NoEntitiesEnd(fs["src"]) /\ ms["g1"].pc \in {"done", "error"})
    => ms["g1"].pc = "error" /\ ms["g1"].err = "DXFStructureError"

(* ------------------------------ look-ahead ---------------------------- *)

\* the handles of an entity and of the records it owns
GroupHandles(e) ==
    {e.handle} \cup {e.links[i].handle : i \in 1..Len(e.links)}
    \cup {e.seqend[i].handle : i \in 1..Len(e.seqend)}

\* position, among the records of the section, of the last record of e
LastOf(e, recs) ==
    CHOOSE i \in 1..Len(recs) :
       /\ recs[i].handle \in GroupHandles(e)
       /\ \A j \in (i + 1)..Len(recs) : recs[j].handle \notin GroupHandles(e)

\* the number of records of the ENTITIES section a suspended modelspace()
\* has processed
SeenIndexed ==
    ms["g1"].idx - (rd["A"].sections["ENTITIES"] + 1)

\* the number of records of the ENTITIES section a suspended
\* single_pass_modelspace has built: those before the record whose
\* structure tag it has just read
SeenStream ==
    Len(RecordsFrom(fs["src"], EntitiesAt(fs["src"]) + 2, sp["S"].pos))

\* a record that does not release the queued entity
Passive(rec) ==
    \/ rec.type \notin SUPPORTED_DXF_TYPES
    \/ rec.paperspace # 0
    \/ rec.type \in DependentTypes

\* the entity just yielded was released by the record that follows its
\* last record
ReleasedByNext(out, seen) ==
    seen = LastOf(out[Len(out)], Records(fs["src"])) + 1

\* the entity just yielded was released by a later record that is a
\* supported model-space record, and only passive records lie between
ReleasedLater(out, seen) ==
    LET recs == Records(fs["src"])
        last == LastOf(out[Len(out)], recs)
    IN /\ seen > last
       /\ seen <= Len(recs)
       /\ recs[seen].handle \notin GroupHandles(out[Len(out)])
       /\ IsSupported(recs[seen]) /\ recs[seen].paperspace = 0
       /\ \A i \in (last + 1)..(seen - 1) : Passive(recs[i])

\* C27 as claimed: at most one entity is queued, and an entity yielded
\* before the end of the section is yielded when the first record after
\* its own records has been processed, in both iterators.
C27_LookAheadOne ==
    /\ Len(ms["g1"].queued) <= 1 /\ Len(sp["S"].queued) <= 1
    /\ ms["g1"].pc = "yielded" => ReleasedByNext(OutIndexed, SeenIndexed)
    /\ sp["S"].pc = "yielded" => ReleasedByNext(OutStream, SeenStream)

\* C27 as amended: at most one entity is queued, and an entity yielded
\* before the end of the section is yielded when a later supported
\* model-space record that does not belong to it has been processed;
\* the records between its own and that one are of unsupported type, in
\* paper space, or VERTEX, ATTRIB or SEQEND records.
C27_LookAhead ==
    /\ Len(ms["g1"].queued) <= 1 /\ Len(sp["S"].queued) <= 1
    /\ ms["g1"].pc = "yielded" => ReleasedLater(OutIndexed, SeenIndexed)
    /\ sp["S"].pc = "yielded" => ReleasedLater(OutStream, SeenStream)

\* modelspace() has yielded an entity two records after its own record:
\* a paper-space entity lies between it and the record that released it
C27_Witness ==
    LET recs == Records(fs["src"]) IN
    /\ ms["g1"].pc = "yielded"
    /\ SeenIndexed = LastOf(OutIndexed[Len(OutIndexed)], recs) + 2
    /\ recs[SeenIndexed - 1].paperspace # 0

(* ------------------------- the filtered index ------------------------ *)

\* the section names of the file
SectionNames(file) ==
    {file[i].value : i \in {j \in 2..Len(file) :
                               /\ file[j].code = 2
                               /\ file[j - 1] = T(0, "SECTION")}}

\* C28: the index of a constructed IterDXF is the raw index of the file
\* restricted to its code 0 entries, in the same order; every section
\* name of the file is a key of the section map, and every key maps to a
\* position of that index whose entry is a SECTION record followed in
\* the file by the tag (2, name).
C28_FilteredIndex ==
    LET r == rd["A"]
        file == fs["src"]
    IN r.st # "new"
       => /\ r.index = SelectSeq(RawIndex(file), LAMBDA e : e.code = 0)
          /\ DOMAIN r.sections = SectionNames(file)
          /\ \A name \in DOMAIN r.sections :
                LET p == r.sections[name] IN
                /\ p \in 0..(Len(r.index) - 1)
                /\ At(r.index, p).value = "SECTION"
                /\ At(file, At(r.index, p).location + 1) = T(2, name)

\* a constructed IterDXF of a file with HEADER, TABLES (with a layer
\* named ENTITIES), ENTITIES and OBJECTS sections and one entity
C28_Witness ==
    /\ rd["A"].st = "open"
    /\ SectionNames(fs["src"]) = {"HEADER", "TABLES", "ENTITIES", "OBJECTS"}
    /\ T(5, "E1") \in Range(fs["src"])
    /\ rd["A"].sections["ENTITIES"] > rd["A"].sections["TABLES"]

(* ------------- specification: one IterDXF, several users ------------- *)

InitShared ==
    /\ \E l \in {StdLayout, R2000Layout},
          b \in Bodies(ExportDeepKinds, MaxSharedRecs) :
          fs = OnlySrc(FileOf(l, b, TRUE))
    /\ rd = [r \in Readers |-> NewReader(IF r = "A" THEN "src" ELSE "dst")]
    /\ ms = [g \in Gens |-> NewGen]
    /\ sp = [s \in Streams |-> NewStream("src")]
    /\ wr = NoWriter
    /\ tg = NoTagger
    /\ oc = NoCollection

\* while the iteration g1 is under way the caller may call export(),
\* close the writer, and advance a second modelspace() iterator of the
\* same IterDXF
NextShared ==
    \/ Open("A")
    \/ MsNextOn("g1", "A")
    \/ Export
    \/ Close
    \/ MsNextOn("g2", "A")

SpecShared == InitShared /\ [][NextShared]_vars

\* C29: whatever export(), IterDXFWriter.close() and a second iterator of
\* the same IterDXF do between two yields of a modelspace() iteration,
\* that iteration yields what it yields when nothing else uses the
\* IterDXF, and ends as it ends then.
C29_NoInterference ==
    LET file == fs["src"]
        alone == Drain(NewGen, IterDXF("src", file), file)
        g == ms["g1"]
    IN /\ IsPrefix(g.out, alone.out)
       /\ g.pc \in {"done", "error"}
          => g.out = alone.out /\ g.err = alone.err

(* ----------------------- the written destination --------------------- *)

RECURSIVE Serialized(_)
\* the serializations of a sequence of written entities, one after the
\* other
Serialized(seq) ==
    IF seq = <<>> THEN <<>>
    ELSE WriteText(Head(seq)).text \o Serialized(Tail(seq))

\* C30: while the writer is open the destination is the copied prefix of
\* the source followed by the serializations of the entities written so
\* far, in the order of the calls, each once; a destination closed after
\* the write of a single LINE holds one record in its ENTITIES section.
C30_DestinationContent ==
    LET prefix == SubSeq(fs["src"], 1, EntitiesAt(fs["src"]) + 1) IN
    /\ wr.st = "open" => fs["dst"] = prefix \o Serialized(wr.written)
    /\ (wr.st = "closed" /\ Len(wr.written) = 1
        /\ wr.written[1].type = "LINE")
       => /\ Len(Records(fs["dst"])) = 1
          /\ Records(fs["dst"])[1].handle = wr.written[1].handle

\* two entities have been written and a write has failed, the writer
\* still open
C30_Witness ==
    /\ wr.st = "open" /\ Len(wr.written) >= 2
    /\ wr.err # "none"
    /\ wr.written[1].handle # wr.written[2].handle

====
